---- MODULE Spec2Model ----
(***************************************************************************)
(* Model of the concurrent task-execution engine of the photo-filter       *)
(* application: SharedCounter, ProcessingSemaphore, ProcessingActor, the   *)
(* four execution strategies (sequential, process pool, thread pool with   *)
(* gate, actor pool) and process_image as an opaque, possibly failing      *)
(* operation.                                                              *)
(***************************************************************************)
EXTENDS Integers, Sequences, FiniteSets, TLC

\* ------------------------------------------------------------------ bounds
MaxTasks == 3       \* longest image list of a run
MaxWorkers == 3     \* largest pool size (max_workers) explored
MaxPermits == 3     \* largest gate capacity (max_concurrent) explored
MaxActors == 2      \* largest number of actors explored
MaxSubmits == 3     \* submit() calls on the stand-alone actor
MaxIncrements == 2  \* increment() calls per thread on the shared counter
MaxThreads == 3     \* threads using one shared counter
MaxEvents == 1      \* list-changing window events handled during one run
MaxCalls == 2       \* calls of process_image compared with each other
MaxSample == 2      \* largest elapsed time, in clock ticks (0: the clock did not advance)
MaxHistory == 3     \* elapsed samples appended to self.metrics in one session
MaxRuns == 2        \* runs started in one session of a window
MaxBatch == 2       \* images in the list of a session
MaxWork == 3        \* tasks of all the runs of a session together
MaxCallers == 3     \* threads that call a stand-alone gate
MaxGateCalls == 4   \* acquire() and release() calls made on such a gate

\* ------------------------------------------------------------- data model
Min(a, b) == IF a <= b THEN a ELSE b

Dirs == <<"/a", "/b">>
Names == <<"img1", "img2", "img3">>
Exts == <<".png", ".jpg", ".bmp">>

\* The i-th image path of the catalogue used to build image lists: distinct
\* full paths, some of which share a basename.
PathAt(i) ==
  [dir |-> Dirs[((i - 1) % 2) + 1],
   name |-> Names[((i - 1) \div 2) + 1],
   ext |-> Exts[((i - 1) \div 2) + 1]]

\* An image list as load_images/drop_event build it: no path twice.
ImageList(n) == [i \in 1..n |-> PathAt(i)]

DefaultFilter == "Desenfoque"
OutputFolder == "output"

Lower(f) ==
  CASE f = "Desenfoque" -> "desenfoque"
    [] f = "Grises" -> "grises"
    [] f = "Contorno" -> "contorno"
    [] f = "Emboss" -> "emboss"
    [] f = "Sharpen" -> "sharpen"
    [] f = "Detalles" -> "detalles"
    [] f = "Bordes" -> "bordes"

\* The method tag each strategy puts in its task tuples.
MethodTag(s, f) ==
  CASE s = "sequential" -> "secuencial"
    [] s = "actor" -> "actor"
    [] s = "thread" -> "multihilo"
    [] s = "process" -> Lower(f)

MakeTask(path, f, s) ==
  [image_path |-> path, selected_filter |-> f,
   output_folder |-> OutputFolder, method |-> MethodTag(s, f)]

\* str(e) of the exception the image operation raises on a file when it
\* fails there; it can be the empty string.
ExcText(path) == IF path.dir = "/a" THEN "" ELSE "cannot identify image file"

\* What the image operation can do on one execution of a task: succeed, or
\* raise.
Outcomes(task) ==
  {[ok |-> TRUE, err |-> ""], [ok |-> FALSE, err |-> ExcText(task.image_path)]}

Basename(path) == <<path.name, path.ext>>

OutputPathNoTag(task) ==
  [dir |-> task.output_folder,
   name |-> <<task.image_path.name>>,
   ext |-> task.image_path.ext]

\* os.path.join(output_folder, f"{name}_{method}{ext}")
OutputPath(task) ==
  [dir |-> task.output_folder,
   name |-> <<task.image_path.name, "_", task.method>>,
   ext |-> task.image_path.ext]

ErrorMessageBare(task, o) == <<o.err>>

\* f"Error en {os.path.basename(image_path)}: {str(e)}"
ErrorMessage(task, o) ==
  <<"Error en ">> \o Basename(task.image_path) \o <<": ", o.err>>

\* A message is a sequence of text pieces; it is empty when every piece is.
NonEmptyText(m) == \E k \in 1..Len(m) : m[k] # ""

EscapesAlways(o) == ~o.ok

\* Whether an exception of the image operation leaves process_image: the
\* whole body is inside try / except Exception.
Escapes(o) == FALSE

\* process_image(args) on outcome o.
ProcessImage(task, o) ==
  IF o.ok
    THEN [status |-> "OK", original |-> task.image_path,
          output |-> OutputPath(task),
          message |-> <<"Procesado: ">> \o Basename(task.image_path)
                        \o <<task.method>>,
          filter |-> task.selected_filter, method |-> task.method]
    ELSE [status |-> "ERROR", original |-> task.image_path,
          message |-> ErrorMessage(task, o), method |-> task.method]

\* What a caller of process_image gets when the exception escapes instead.
Raised == [status |-> "RAISED"]

Execute(task, o) == IF Escapes(o) THEN Raised ELSE ProcessImage(task, o)

NoTask == [image_path |-> "none"]
NoResult == [status |-> "NONE"]
NotStopped == [deq |-> -1, sub |-> -1]

Range(s) == {s[k] : k \in 1..Len(s)}
Count(s, x) == Cardinality({k \in 1..Len(s) : s[k] = x})

\* ------------------------------------------------------------------ state
VARIABLES
  strategy,          \* the strategy of the run
  image_paths,       \* the image list the run was given
  tasks,             \* the task tuples the run has built, in order
  results,           \* the run's results list
  cpc,               \* where the caller of the strategy is
  ci,                \* the caller's loop index
  want,              \* the bound range(len(image_paths)) fixed when collection starts
  fate,              \* per source path: how its image operation ended
  max_workers,       \* pool size of the executor
  max_concurrent,    \* capacity the ProcessingSemaphore was built with
  tpc,               \* per submitted task: where its pooled execution is
  fres,              \* per submitted task: the result its future holds
  permits,           \* threading.Semaphore's internal counter
  active_processes,  \* ProcessingSemaphore.active_processes
  acquires,          \* per task: acquire() calls that returned
  releases,          \* per task: release() calls that returned
  num_actors,        \* number of actors of the pool
  created,           \* actors constructed so far
  inbox,             \* per actor: task_queue
  running,           \* per actor: _running
  apc,               \* per actor: where its _run loop is
  acur,              \* per actor: the task in flight
  ares,              \* per actor: the result about to be put
  outbox,            \* the shared result_queue
  stopped_at,        \* per actor: tasks dequeued and submitted when stop() was first called
  dequeued,          \* per actor: tasks dequeued so far
  submitted,         \* per actor: tasks submitted so far
  pushed,            \* per actor: results put on the outbox so far
  value,             \* SharedCounter._value
  lock,              \* holder of SharedCounter._lock (0: free)
  thpc,              \* per counter thread: where it is
  thtmp,             \* per counter thread: the value it loaded
  returned,          \* values returned by completed increment() calls, in order
  calls,             \* per counter thread: increment() calls completed
  got,               \* the reader's get_value() call: where it is and what it returned
  program,           \* the application that started the run ("none": no application)
  self_image_paths,  \* the application's image list, self.image_paths
  batch,             \* the application's image list as it was when the run started
  metrics,           \* self.metrics: per key, the elapsed samples appended
  events,            \* list-changing window events handled since the run started
  runs,              \* the runs the window has started, in order
  processed_counter, \* self.processed_counter: the SharedCounter it refers to
  error_counter,     \* self.error_counter: the SharedCounter it refers to
  progress_bar,      \* self.progress_bar: value and maximum
  currently_processing, \* self.currently_processing (prueba2.py)
  execution_times,   \* self.execution_times (prueba2.py)
  shown              \* per reporting place: what it displays

runVars == <<strategy, image_paths, tasks, results, cpc, ci, want, fate>>
poolVars == <<max_workers, max_concurrent, tpc, fres, permits, active_processes,
              acquires, releases>>
actorVars == <<num_actors, created, inbox, running, apc, acur, ares, outbox,
               stopped_at, dequeued, submitted, pushed>>
counterVars == <<value, lock, thpc, thtmp, returned, calls, got>>
appVars == <<program, self_image_paths, batch, metrics, events>>
windowVars == <<runs, processed_counter, error_counter, progress_bar,
                currently_processing, execution_times, shown>>
vars == <<runVars, poolVars, actorVars, counterVars, appVars, windowVars>>

Strategies == {"sequential", "process", "thread", "actor"}
Pooled == {"process", "thread"}
Catalogue == {PathAt(k) : k \in 1..(Len(Dirs) * Len(Names))}

SetFate(path, r) ==
  [fate EXCEPT ![path] = IF r.status = "OK" THEN "ok" ELSE "fail"]

\* ------------------------------------------------- components at rest
\* ProcessingSemaphore.__init__(max_concurrent) and an executor not yet used.
PoolInit(workers, capacity) ==
  /\ max_workers = workers
  /\ max_concurrent = capacity
  /\ tpc = <<>>
  /\ fres = <<>>
  /\ permits = capacity
  /\ active_processes = 0
  /\ acquires = <<>>
  /\ releases = <<>>

\* No actor constructed yet; n actors will be.
ActorsInit(n) ==
  /\ num_actors = n
  /\ created = 0
  /\ inbox = [a \in 1..n |-> <<>>]
  /\ running = [a \in 1..n |-> TRUE]
  /\ apc = [a \in 1..n |-> "unborn"]
  /\ acur = [a \in 1..n |-> NoTask]
  /\ ares = [a \in 1..n |-> NoResult]
  /\ outbox = <<>>
  /\ stopped_at = [a \in 1..n |-> NotStopped]
  /\ dequeued = [a \in 1..n |-> 0]
  /\ submitted = [a \in 1..n |-> 0]
  /\ pushed = [a \in 1..n |-> 0]

\* SharedCounter.__init__ and threads that have not called it yet.
CounterInit(n) ==
  /\ value = 0
  /\ lock = 0
  /\ thpc = [t \in 1..n |-> "idle"]
  /\ thtmp = [t \in 1..n |-> 0]
  /\ returned = <<>>
  /\ calls = [t \in 1..n |-> 0]
  /\ got = [pc |-> "idle", val |-> -1, after |-> 0, quiet |-> FALSE]

\* SharedCounter(): a new instance, made for run r (0: by __init__), that no
\* run has incremented
NewCounter(r) == [made_for |-> r, value |-> 0, by |-> {}]

\* the window's own state as __init__ leaves it, with no run started
NoWindow ==
  /\ runs = <<>>
  /\ processed_counter = NewCounter(0)
  /\ error_counter = NewCounter(0)
  /\ progress_bar = [value |-> 0, maximum |-> 0]
  /\ currently_processing = FALSE
  /\ execution_times = [Secuencial |-> 0, Paralelo |-> 0]
  /\ shown = <<>>

\* A strategy called on a list of its own, by no application.
NoApp ==
  /\ program = "none"
  /\ self_image_paths = image_paths
  /\ batch = image_paths
  /\ metrics = <<>>
  /\ events = 0
  /\ NoWindow

\* ------------------------------------------------------------ a run: Init
\* One run of one strategy over an image list of 0..MaxTasks paths; the list
\* is not changed while the run is going.
Init ==
  /\ strategy \in Strategies
  /\ \E n \in 0..MaxTasks : image_paths = ImageList(n)
  /\ tasks = <<>>
  /\ results = <<>>
  /\ cpc = CASE strategy = "sequential" -> "loop"
             [] strategy \in Pooled -> "build"
             [] strategy = "actor" -> "create"
  /\ ci = 0
  /\ want = 0
  /\ fate = [p \in Catalogue |-> "none"]
  /\ \E w \in 1..MaxWorkers, c \in 1..MaxPermits :
       /\ strategy \notin Pooled => w = MaxWorkers
       /\ strategy # "thread" => c = MaxPermits
       /\ PoolInit(w, c)
  /\ \E n \in 1..MaxActors :
       /\ strategy # "actor" => n = MaxActors
       /\ ActorsInit(n)
  /\ CounterInit(MaxThreads)
  /\ NoApp

\* ------------------------------------------------- sequential strategy
SeqIterPrepend ==
  /\ strategy = "sequential" /\ cpc = "loop"
  /\ ci < Len(image_paths)
  /\ LET task == MakeTask(image_paths[ci + 1], DefaultFilter, "sequential")
     IN \E o \in Outcomes(task) :
       LET r == Execute(task, o)
       IN /\ tasks' = Append(tasks, task)
          /\ IF r = Raised
               THEN cpc' = "aborted" /\ UNCHANGED <<results, ci, fate>>
               ELSE /\ results' = <<r>> \o results
                    /\ ci' = ci + 1
                    /\ fate' = SetFate(task.image_path, r)
                    /\ cpc' = cpc
  /\ UNCHANGED <<strategy, image_paths, want, poolVars, actorVars, counterVars, appVars, windowVars>>

\* for image_path in image_paths: result = process_image(...); results.append
SeqIter ==
  /\ strategy = "sequential" /\ cpc = "loop"
  /\ ci < Len(image_paths)
  /\ LET task == MakeTask(image_paths[ci + 1], DefaultFilter, "sequential")
     IN \E o \in Outcomes(task) :
       LET r == Execute(task, o)
       IN /\ tasks' = Append(tasks, task)
          /\ IF r = Raised
               THEN cpc' = "aborted" /\ UNCHANGED <<results, ci, fate>>
               ELSE /\ results' = Append(results, r)
                    /\ ci' = ci + 1
                    /\ fate' = SetFate(task.image_path, r)
                    /\ cpc' = cpc
  /\ UNCHANGED <<strategy, image_paths, want, poolVars, actorVars, counterVars, appVars, windowVars>>

SeqDone ==
  /\ strategy = "sequential" /\ cpc = "loop"
  /\ ci >= Len(image_paths)
  /\ cpc' = "done"
  /\ UNCHANGED <<strategy, image_paths, tasks, results, ci, want, fate,
                 poolVars, actorVars, counterVars, appVars, windowVars>>

\* ------------------------------------- pool strategies (process, thread)
GatedAnyPool == strategy \in Pooled

\* only run_multithread_processing / run_multithread_version wrap
\* process_image in acquire ... release
Gated == strategy = "thread"

InPool == {"acquire", "inc", "work", "dec", "sem_release"}

\* Worker threads (or processes) of the executor that are running a task.
Busy == Cardinality({i \in DOMAIN tpc : tpc[i] \in InPool})

\* Tasks inside process_image.
Working == {i \in DOMAIN tpc : tpc[i] = "work"}

\* tasks = [(path, selected_filter, self.output_folder, tag) for path in self.image_paths]
PoolBuild ==
  /\ strategy \in Pooled /\ cpc = "build"
  /\ tasks' = [i \in 1..Len(image_paths) |->
                 MakeTask(image_paths[i], DefaultFilter, strategy)]
  /\ tpc' = [i \in 1..Len(image_paths) |-> "unsubmitted"]
  /\ fres' = [i \in 1..Len(image_paths) |-> NoResult]
  /\ acquires' = [i \in 1..Len(image_paths) |-> 0]
  /\ releases' = [i \in 1..Len(image_paths) |-> 0]
  /\ cpc' = "submit"
  /\ ci' = 0
  /\ UNCHANGED <<strategy, image_paths, results, want, fate, max_workers,
                 max_concurrent, permits, active_processes, actorVars, counterVars, appVars, windowVars>>

\* futures = [executor.submit(fn, task) for task in tasks], one submit
PoolSubmit ==
  /\ strategy \in Pooled /\ cpc = "submit"
  /\ ci < Len(tasks)
  /\ tpc' = [tpc EXCEPT ![ci + 1] = "queued"]
  /\ ci' = ci + 1
  /\ UNCHANGED <<strategy, image_paths, tasks, results, cpc, want, fate,
                 max_workers, max_concurrent, fres, permits, active_processes, acquires, releases, actorVars,
                 counterVars, appVars, windowVars>>

PoolSubmitted ==
  /\ strategy \in Pooled /\ cpc = "submit"
  /\ ci >= Len(tasks)
  /\ cpc' = "collect"
  /\ UNCHANGED <<strategy, image_paths, tasks, results, ci, want, fate,
                 poolVars, actorVars, counterVars, appVars, windowVars>>

WorkerAlwaysFree == TRUE

\* ThreadPoolExecutor(max_workers=...): at most max_workers work items run
\* at a time.
WorkerFree == Busy < max_workers

TaskStartUnbounded(i) ==
  /\ strategy \in Pooled
  /\ tpc[i] = "queued"
  /\ \A j \in 1..(i - 1) : tpc[j] # "queued"
  /\ tpc' = [tpc EXCEPT ![i] = IF Gated THEN "acquire" ELSE "work"]
  /\ UNCHANGED <<runVars, max_workers, max_concurrent, fres, permits,
                 active_processes, acquires, releases,
                 actorVars, counterVars, appVars, windowVars>>

\* A free worker of the executor takes the oldest queued work item and
\* calls the submitted function on it.
TaskStart(i) ==
  /\ strategy \in Pooled
  /\ tpc[i] = "queued"
  /\ WorkerFree
  /\ \A j \in 1..(i - 1) : tpc[j] # "queued"
  /\ tpc' = [tpc EXCEPT ![i] = IF Gated THEN "acquire" ELSE "work"]
  /\ UNCHANGED <<runVars, max_workers, max_concurrent, fres, permits,
                 active_processes, acquires, releases,
                 actorVars, counterVars, appVars, windowVars>>

SemNeverBlocks == TRUE

\* threading.Semaphore.acquire() returns only when its counter is positive.
SemAvailable == permits > 0

\* ProcessingSemaphore.acquire, first statement: self.semaphore.acquire()
GateAcquire(i) ==
  /\ tpc[i] = "acquire"
  /\ SemAvailable
  /\ permits' = permits - 1
  /\ tpc' = [tpc EXCEPT ![i] = "inc"]
  /\ UNCHANGED <<runVars, max_workers, max_concurrent, fres, active_processes, acquires, releases, actorVars,
                 counterVars, appVars, windowVars>>

\* ProcessingSemaphore.acquire, second statement, after which acquire()
\* returns: with self._lock: self.active_processes += 1  (_lock makes the
\* read-modify-write one step for every other user of the gate)
GateInc(i) ==
  /\ tpc[i] = "inc"
  /\ active_processes' = active_processes + 1
  /\ acquires' = [acquires EXCEPT ![i] = @ + 1]
  /\ tpc' = [tpc EXCEPT ![i] = "work"]
  /\ UNCHANGED <<runVars, max_workers, max_concurrent, fres, permits, releases, actorVars, counterVars, appVars, windowVars>>

ReleasesAfterOkOnly(r) == r.status = "OK"

\* process_with_semaphore: the release is in a finally clause, so it runs
\* whatever process_image returned or raised.
ReleasesAfter(r) == TRUE

\* result = process_image(task), in a pooled worker
TaskWork(i) ==
  /\ tpc[i] = "work"
  /\ \E o \in Outcomes(tasks[i]) :
       LET r == Execute(tasks[i], o)
       IN /\ fres' = [fres EXCEPT ![i] = r]
          /\ fate' = IF r = Raised THEN fate ELSE SetFate(tasks[i].image_path, r)
          /\ tpc' = [tpc EXCEPT ![i] =
                       IF Gated /\ ReleasesAfter(r) THEN "dec" ELSE "finished"]
  /\ UNCHANGED <<strategy, image_paths, tasks, results, cpc, ci, want,
                 max_workers, max_concurrent, permits, active_processes, acquires, releases, actorVars,
                 counterVars, appVars, windowVars>>

\* ProcessingSemaphore.release, first statement:
\* with self._lock: self.active_processes -= 1
GateDec(i) ==
  /\ tpc[i] = "dec"
  /\ active_processes' = active_processes - 1
  /\ tpc' = [tpc EXCEPT ![i] = "sem_release"]
  /\ UNCHANGED <<runVars, max_workers, max_concurrent, fres, permits, acquires,
                 releases, actorVars, counterVars, appVars, windowVars>>

GateReleaseBounded(i) ==
  /\ tpc[i] = "sem_release"
  /\ permits' = IF permits < max_concurrent THEN permits + 1 ELSE permits
  /\ releases' = [releases EXCEPT ![i] = @ + 1]
  /\ tpc' = [tpc EXCEPT ![i] = "finished"]
  /\ UNCHANGED <<runVars, max_workers, max_concurrent, fres, active_processes, acquires, actorVars, counterVars, appVars, windowVars>>

GateReleaseKeepsPermit(i) ==
  /\ tpc[i] = "sem_release"
  /\ releases' = [releases EXCEPT ![i] = @ + 1]
  /\ tpc' = [tpc EXCEPT ![i] = "finished"]
  /\ UNCHANGED <<runVars, max_workers, max_concurrent, fres, active_processes,
                 permits, acquires, actorVars, counterVars, appVars, windowVars>>

\* ProcessingSemaphore.release, last statement: self.semaphore.release();
\* the submitted function returns and the future gets its result.
GateRelease(i) ==
  /\ tpc[i] = "sem_release"
  /\ permits' = permits + 1
  /\ releases' = [releases EXCEPT ![i] = @ + 1]
  /\ tpc' = [tpc EXCEPT ![i] = "finished"]
  /\ UNCHANGED <<runVars, max_workers, max_concurrent, fres, active_processes, acquires, actorVars, counterVars, appVars, windowVars>>

\* ProcessingSemaphore.get_active(): with self._lock: return self.active_processes
GetActive == active_processes

\* for future in as_completed(futures): result = future.result();
\* results.append(result)  -- any finished future not yet yielded
PoolCollect(i) ==
  /\ strategy \in Pooled /\ cpc = "collect"
  /\ tpc[i] = "finished"
  /\ tpc' = [tpc EXCEPT ![i] = "collected"]
  /\ IF fres[i] = Raised
       THEN cpc' = "aborted" /\ UNCHANGED results
       ELSE results' = Append(results, fres[i]) /\ UNCHANGED cpc
  /\ UNCHANGED <<strategy, image_paths, tasks, ci, want, fate, max_workers,
                 max_concurrent, fres, permits, active_processes,
                 acquires, releases, actorVars, counterVars, appVars, windowVars>>

PoolDone ==
  /\ strategy \in Pooled /\ cpc = "collect"
  /\ \A i \in DOMAIN tpc : tpc[i] = "collected"
  /\ cpc' = "done"
  /\ UNCHANGED <<strategy, image_paths, tasks, results, ci, want, fate,
                 poolVars, actorVars, counterVars, appVars, windowVars>>

\* ------------------------------------------------------------- the actor
ActorCheckIgnoresFlag(a) ==
  /\ apc[a] = "check"
  /\ apc' = [apc EXCEPT ![a] = "poll"]
  /\ UNCHANGED <<runVars, poolVars, num_actors, created, inbox, running, acur,
                 ares, outbox, stopped_at, dequeued, submitted, pushed,
                 counterVars, appVars, windowVars>>

\* ProcessingActor._run, the loop test: while self._running
ActorCheck(a) ==
  /\ apc[a] = "check"
  /\ apc' = [apc EXCEPT ![a] = IF running[a] THEN "poll" ELSE "exited"]
  /\ UNCHANGED <<runVars, poolVars, num_actors, created, inbox, running, acur,
                 ares, outbox, stopped_at, dequeued, submitted, pushed,
                 counterVars, appVars, windowVars>>

ActorPollLast(a) ==
  /\ apc[a] = "poll"
  /\ inbox[a] # <<>>
  /\ acur' = [acur EXCEPT ![a] = inbox[a][Len(inbox[a])]]
  /\ inbox' = [inbox EXCEPT ![a] = SubSeq(@, 1, Len(@) - 1)]
  /\ dequeued' = [dequeued EXCEPT ![a] = @ + 1]
  /\ apc' = [apc EXCEPT ![a] = "process"]
  /\ UNCHANGED <<runVars, poolVars, num_actors, created, running, ares, outbox,
                 stopped_at, submitted, pushed, counterVars, appVars, windowVars>>

\* task = self.task_queue.get(timeout=1) returning a task: the head of the inbox
ActorPoll(a) ==
  /\ apc[a] = "poll"
  /\ inbox[a] # <<>>
  /\ acur' = [acur EXCEPT ![a] = Head(inbox[a])]
  /\ inbox' = [inbox EXCEPT ![a] = Tail(@)]
  /\ dequeued' = [dequeued EXCEPT ![a] = @ + 1]
  /\ apc' = [apc EXCEPT ![a] = "process"]
  /\ UNCHANGED <<runVars, poolVars, num_actors, created, running, ares, outbox,
                 stopped_at, submitted, pushed, counterVars, appVars, windowVars>>

ActorTimeoutExits(a) ==
  /\ apc[a] = "poll"
  /\ inbox[a] = <<>>
  /\ apc' = [apc EXCEPT ![a] = "exited"]
  /\ UNCHANGED <<runVars, poolVars, num_actors, created, inbox, running, acur,
                 ares, outbox, stopped_at, dequeued, submitted, pushed,
                 counterVars, appVars, windowVars>>

\* task_queue.get(timeout=1) raising queue.Empty: except queue.Empty: continue
ActorTimeout(a) ==
  /\ apc[a] = "poll"
  /\ inbox[a] = <<>>
  /\ apc' = [apc EXCEPT ![a] = "check"]
  /\ UNCHANGED <<runVars, poolVars, num_actors, created, inbox, running, acur,
                 ares, outbox, stopped_at, dequeued, submitted, pushed,
                 counterVars, appVars, windowVars>>

ActorProcessEager(a) ==
  /\ apc[a] = "process"
  /\ \E o \in Outcomes(acur[a]) :
       LET r == Execute(acur[a], o)
       IN IF r = Raised
            THEN /\ apc' = [apc EXCEPT ![a] = "dead"]
                 /\ UNCHANGED <<ares, fate>>
            ELSE /\ apc' = [apc EXCEPT ![a] = "poll"]
                 /\ ares' = [ares EXCEPT ![a] = r]
                 /\ fate' = SetFate(acur[a].image_path, r)
  /\ UNCHANGED <<strategy, image_paths, tasks, results, cpc, ci, want, poolVars,
                 num_actors, created, inbox, running, acur, outbox, stopped_at,
                 dequeued, submitted, pushed, counterVars, appVars, windowVars>>

\* result = process_image(task); an exception other than queue.Empty would
\* leave _run and end the actor's thread.
ActorProcess(a) ==
  /\ apc[a] = "process"
  /\ \E o \in Outcomes(acur[a]) :
       LET r == Execute(acur[a], o)
       IN IF r = Raised
            THEN /\ apc' = [apc EXCEPT ![a] = "dead"]
                 /\ UNCHANGED <<ares, fate>>
            ELSE /\ apc' = [apc EXCEPT ![a] = "put"]
                 /\ ares' = [ares EXCEPT ![a] = r]
                 /\ fate' = SetFate(acur[a].image_path, r)
  /\ UNCHANGED <<strategy, image_paths, tasks, results, cpc, ci, want, poolVars,
                 num_actors, created, inbox, running, acur, outbox, stopped_at,
                 dequeued, submitted, pushed, counterVars, appVars, windowVars>>

\* self.result_queue.put(result), then back to the loop test
ActorPut(a) ==
  /\ apc[a] = "put"
  /\ outbox' = Append(outbox, ares[a])
  /\ pushed' = [pushed EXCEPT ![a] = @ + 1]
  /\ acur' = [acur EXCEPT ![a] = NoTask]
  /\ ares' = [ares EXCEPT ![a] = NoResult]
  /\ apc' = [apc EXCEPT ![a] = "check"]
  /\ UNCHANGED <<runVars, poolVars, num_actors, created, inbox, running,
                 stopped_at, dequeued, submitted, counterVars, appVars, windowVars>>

SubmitFront(a, task) ==
  /\ inbox' = [inbox EXCEPT ![a] = <<task>> \o @]
  /\ submitted' = [submitted EXCEPT ![a] = @ + 1]

\* ProcessingActor.submit(task): self.task_queue.put(task)
Submit(a, task) ==
  /\ inbox' = [inbox EXCEPT ![a] = Append(@, task)]
  /\ submitted' = [submitted EXCEPT ![a] = @ + 1]

StopAll(a) ==
  /\ running' = [b \in DOMAIN running |-> FALSE]
  /\ inbox' = inbox
  /\ stopped_at' = [stopped_at EXCEPT ![a] =
                      IF @ = NotStopped
                        THEN [deq |-> dequeued[a], sub |-> submitted[a]] ELSE @]

StopDiscards(a) ==
  /\ running' = [running EXCEPT ![a] = FALSE]
  /\ inbox' = [inbox EXCEPT ![a] = <<>>]
  /\ stopped_at' = [stopped_at EXCEPT ![a] =
                      IF @ = NotStopped
                        THEN [deq |-> dequeued[a], sub |-> submitted[a]] ELSE @]

\* ProcessingActor.stop(): self._running = False
Stop(a) ==
  /\ running' = [running EXCEPT ![a] = FALSE]
  /\ inbox' = inbox
  /\ stopped_at' = [stopped_at EXCEPT ![a] =
                      IF @ = NotStopped
                        THEN [deq |-> dequeued[a], sub |-> submitted[a]] ELSE @]

\* ---------------------------------------------------- actor-pool strategy
\* for _ in range(num_actors): actor = ProcessingActor(result_queue)
\* (the constructor starts the actor's thread)
ActorCreate ==
  /\ strategy = "actor" /\ cpc = "create"
  /\ created < num_actors
  /\ created' = created + 1
  /\ apc' = [apc EXCEPT ![created + 1] = "check"]
  /\ UNCHANGED <<runVars, poolVars, num_actors, inbox, running, acur, ares,
                 outbox, stopped_at, dequeued, submitted, pushed, counterVars, appVars, windowVars>>

ActorsCreated ==
  /\ strategy = "actor" /\ cpc = "create"
  /\ created >= num_actors
  /\ cpc' = "submit"
  /\ ci' = 0
  /\ UNCHANGED <<strategy, image_paths, tasks, results, want, fate, poolVars,
                 actorVars, counterVars, appVars, windowVars>>

TargetFirst(i) == 1

\* actors[i % num_actors], for the 0-based index i
Target(i) == (i % num_actors) + 1

\* for i, image_path in enumerate(image_paths): actors[i % num_actors].submit(task)
ActorSubmit ==
  /\ strategy = "actor" /\ cpc = "submit"
  /\ ci < Len(image_paths)
  /\ LET task == MakeTask(image_paths[ci + 1], DefaultFilter, "actor")
     IN /\ Submit(Target(ci), task)
        /\ tasks' = Append(tasks, task)
  /\ ci' = ci + 1
  /\ UNCHANGED <<strategy, image_paths, results, cpc, want, fate, poolVars,
                 num_actors, created, running, apc, acur, ares, outbox,
                 stopped_at, dequeued, pushed, counterVars, appVars, windowVars>>

CollectCountShort == IF Len(image_paths) > 0 THEN Len(image_paths) - 1 ELSE 0

\* for _ in range(len(image_paths)): the number of blocking reads
CollectCount == Len(image_paths)

\* end of the submit loop: enumerate(image_paths) is exhausted
ActorSubmitted ==
  /\ strategy = "actor" /\ cpc = "submit"
  /\ ci >= Len(image_paths)
  /\ cpc' = "range"
  /\ UNCHANGED <<strategy, image_paths, tasks, results, ci, want, fate,
                 poolVars, actorVars, counterVars, appVars, windowVars>>

ActorRangeNone ==
  /\ strategy = "actor" /\ cpc = "range"
  /\ cpc' = "collect"
  /\ ci' = 0
  /\ want' = 0
  /\ UNCHANGED <<strategy, image_paths, tasks, results, fate, poolVars,
                 actorVars, counterVars, appVars, windowVars>>

\* range(len(image_paths)) of the collect loop is evaluated
ActorRange ==
  /\ strategy = "actor" /\ cpc = "range"
  /\ cpc' = "collect"
  /\ ci' = 0
  /\ want' = CollectCount
  /\ UNCHANGED <<strategy, image_paths, tasks, results, fate, poolVars,
                 actorVars, counterVars, appVars, windowVars>>

\* result = result_queue.get(); results.append(result)  (blocks while empty)
ActorCollect ==
  /\ strategy = "actor" /\ cpc = "collect"
  /\ ci < want
  /\ outbox # <<>>
  /\ results' = Append(results, Head(outbox))
  /\ outbox' = Tail(outbox)
  /\ ci' = ci + 1
  /\ UNCHANGED <<strategy, image_paths, tasks, cpc, want, fate, poolVars,
                 num_actors, created, inbox, running, apc, acur, ares,
                 stopped_at, dequeued, submitted, pushed, counterVars, appVars, windowVars>>

ActorCollected ==
  /\ strategy = "actor" /\ cpc = "collect"
  /\ ci >= want
  /\ cpc' = "stop"
  /\ ci' = 0
  /\ UNCHANGED <<strategy, image_paths, tasks, results, want, fate, poolVars,
                 actorVars, counterVars, appVars, windowVars>>

\* for actor in actors: actor.stop()
ActorStop ==
  /\ strategy = "actor" /\ cpc = "stop"
  /\ ci < created
  /\ Stop(ci + 1)
  /\ ci' = ci + 1
  /\ UNCHANGED <<strategy, image_paths, tasks, results, cpc, want, fate,
                 poolVars, num_actors, created, apc, acur, ares, outbox,
                 dequeued, submitted, pushed, counterVars, appVars, windowVars>>

ActorsStopped ==
  /\ strategy = "actor" /\ cpc = "stop"
  /\ ci >= created
  /\ cpc' = "done"
  /\ UNCHANGED <<strategy, image_paths, tasks, results, ci, want, fate,
                 poolVars, actorVars, counterVars, appVars, windowVars>>

\* ------------------------------------------------------------ a run: Next
Next ==
  \/ SeqIter
  \/ SeqDone
  \/ PoolBuild
  \/ PoolSubmit
  \/ PoolSubmitted
  \/ \E i \in DOMAIN tpc : TaskStart(i)
  \/ \E i \in DOMAIN tpc : GateAcquire(i)
  \/ \E i \in DOMAIN tpc : GateInc(i)
  \/ \E i \in DOMAIN tpc : TaskWork(i)
  \/ \E i \in DOMAIN tpc : GateDec(i)
  \/ \E i \in DOMAIN tpc : GateRelease(i)
  \/ \E i \in DOMAIN tpc : PoolCollect(i)
  \/ PoolDone
  \/ ActorCreate
  \/ ActorsCreated
  \/ ActorSubmit
  \/ ActorSubmitted
  \/ ActorRange
  \/ ActorCollect
  \/ ActorCollected
  \/ ActorStop
  \/ ActorsStopped
  \/ \E a \in 1..created : ActorCheck(a)
  \/ \E a \in 1..created : ActorPoll(a)
  \/ \E a \in 1..created : ActorTimeout(a)
  \/ \E a \in 1..created : ActorProcess(a)
  \/ \E a \in 1..created : ActorPut(a)

Spec == Init /\ [][Next]_vars

\* Fair scheduling of the threads of a run: the caller keeps running while it
\* can take a step, so does each actor, and the executor's workers do not
\* all stay idle while some pooled execution can go on.
CallerStep ==
  \/ SeqIter \/ SeqDone
  \/ PoolBuild \/ PoolSubmit \/ PoolSubmitted \/ PoolDone
  \/ \E i \in DOMAIN tpc : PoolCollect(i)
  \/ ActorCreate \/ ActorsCreated \/ ActorSubmit \/ ActorSubmitted
  \/ ActorRange \/ ActorCollect \/ ActorCollected \/ ActorStop \/ ActorsStopped

TaskStep(i) ==
  /\ i \in DOMAIN tpc
  /\ \/ TaskStart(i) \/ GateAcquire(i) \/ GateInc(i) \/ TaskWork(i)
     \/ GateDec(i) \/ GateRelease(i)

ActorStep(a) ==
  /\ a <= created
  /\ \/ ActorCheck(a) \/ ActorPoll(a) \/ ActorTimeout(a) \/ ActorProcess(a)
     \/ ActorPut(a)

FairSpec ==
  /\ Spec
  /\ WF_vars(CallerStep)
  /\ WF_vars(\E i \in 1..MaxTasks : TaskStep(i))
  /\ \A a \in 1..MaxActors : WF_vars(ActorStep(a))

\* -------------------------------------------------- a stand-alone gate
\* One ProcessingSemaphore and threads that call acquire() and release() on
\* it in any order, paired or not.
GateInit ==
  /\ strategy = "none"
  /\ image_paths = <<>>
  /\ tasks = <<>>
  /\ results = <<>>
  /\ cpc = "gate"
  /\ ci = 0
  /\ want = 0
  /\ fate = [p \in Catalogue |-> "none"]
  /\ max_workers = MaxCallers
  /\ max_concurrent \in 1..(MaxCallers - 1)
  /\ permits = max_concurrent
  /\ active_processes = 0
  /\ tpc = [i \in 1..MaxCallers |-> "finished"]
  /\ fres = [i \in 1..MaxCallers |-> NoResult]
  /\ acquires = [i \in 1..MaxCallers |-> 0]
  /\ releases = [i \in 1..MaxCallers |-> 0]
  /\ ActorsInit(MaxActors)
  /\ CounterInit(MaxThreads)
  /\ NoApp

\* between calls: acquire() has returned ("work") or release() has, or no
\* call was made yet ("finished")
AtRest(i) == tpc[i] \in {"work", "finished"}

\* calls thread i has begun
CallsOf(i) ==
  acquires[i] + releases[i] + (IF AtRest(i) THEN 0 ELSE 1)

\* calls begun by the first n threads
RECURSIVE GateCalls(_)
GateCalls(n) == IF n = 0 THEN 0 ELSE CallsOf(n) + GateCalls(n - 1)

\* thread i calls self.semaphore.acquire() of the gate
CallAcquire(i) ==
  /\ cpc = "gate"
  /\ AtRest(i)
  /\ GateCalls(MaxCallers) < MaxGateCalls
  /\ tpc' = [tpc EXCEPT ![i] = "acquire"]
  /\ UNCHANGED <<runVars, max_workers, max_concurrent, fres, permits,
                 active_processes, acquires, releases, actorVars, counterVars,
                 appVars, windowVars>>

\* thread i calls release() of the gate, whatever it has acquired
CallRelease(i) ==
  /\ cpc = "gate"
  /\ AtRest(i)
  /\ GateCalls(MaxCallers) < MaxGateCalls
  /\ tpc' = [tpc EXCEPT ![i] = "dec"]
  /\ UNCHANGED <<runVars, max_workers, max_concurrent, fres, permits,
                 active_processes, acquires, releases, actorVars, counterVars,
                 appVars, windowVars>>

GateNext ==
  \/ \E i \in 1..MaxCallers : CallAcquire(i)
  \/ \E i \in 1..MaxCallers : CallRelease(i)
  \/ \E i \in 1..MaxCallers : GateAcquire(i)
  \/ \E i \in 1..MaxCallers : GateInc(i)
  \/ \E i \in 1..MaxCallers : GateDec(i)
  \/ \E i \in 1..MaxCallers : GateRelease(i)

GateSpec == GateInit /\ [][GateNext]_vars

\* ------------------------------------------------- a stand-alone actor
\* Actors constructed and started, driven by arbitrary submit() and stop()
\* calls of their owner.
LoneInit ==
  /\ strategy = "none"
  /\ image_paths = <<>>
  /\ tasks = <<>>
  /\ results = <<>>
  /\ cpc = "owner"
  /\ ci = 0
  /\ want = 0
  /\ fate = [p \in Catalogue |-> "none"]
  /\ PoolInit(MaxWorkers, MaxPermits)
  /\ LET n == 2 IN   \* two actors, each driven by its owner's calls
       /\ num_actors = n
       /\ created = n
       /\ inbox = [a \in 1..n |-> <<>>]
       /\ running = [a \in 1..n |-> TRUE]
       /\ apc = [a \in 1..n |-> "check"]
       /\ acur = [a \in 1..n |-> NoTask]
       /\ ares = [a \in 1..n |-> NoResult]
       /\ outbox = <<>>
       /\ stopped_at = [a \in 1..n |-> NotStopped]
       /\ dequeued = [a \in 1..n |-> 0]
       /\ submitted = [a \in 1..n |-> 0]
       /\ pushed = [a \in 1..n |-> 0]
  /\ CounterInit(MaxThreads)
  /\ NoApp

\* the owner calls actor.submit(task) with a task of its own
LoneSubmit(a) ==
  /\ cpc = "owner"
  /\ Len(tasks) < MaxSubmits
  /\ LET task == MakeTask(PathAt(Len(tasks) + 1), DefaultFilter, "actor")
     IN /\ Submit(a, task)
        /\ tasks' = Append(tasks, task)
  /\ UNCHANGED <<strategy, image_paths, results, cpc, ci, want, fate, poolVars,
                 num_actors, created, running, apc, acur, ares, outbox,
                 stopped_at, dequeued, pushed, counterVars, appVars, windowVars>>

\* the owner calls actor.stop()
LoneStop(a) ==
  /\ cpc = "owner"
  /\ running[a]
  /\ Stop(a)
  /\ UNCHANGED <<runVars, poolVars, num_actors, created, apc, acur,
                 ares, outbox, dequeued, submitted, pushed, counterVars, appVars, windowVars>>

LoneNext ==
  \/ \E a \in 1..created : LoneSubmit(a)
  \/ \E a \in 1..created : LoneStop(a)
  \/ \E a \in 1..created : ActorCheck(a)
  \/ \E a \in 1..created : ActorPoll(a)
  \/ \E a \in 1..created : ActorTimeout(a)
  \/ \E a \in 1..created : ActorProcess(a)
  \/ \E a \in 1..created : ActorPut(a)

LoneSpec == LoneInit /\ [][LoneNext]_vars

\* ... with each actor's thread scheduled fairly
LoneFairSpec == LoneSpec /\ \A a \in 1..MaxActors : WF_vars(ActorStep(a))

\* ------------------------------------------------------- SharedCounter
CounterThreads == 1..MaxThreads

LockIgnored == TRUE

\* threading.Lock: entering "with self._lock" waits until the lock is free.
LockFree == lock = 0

\* a thread calls increment()
IncCall(t) ==
  /\ thpc[t] = "idle"
  /\ calls[t] < MaxIncrements
  /\ thpc' = [thpc EXCEPT ![t] = "enter"]
  /\ got' = IF got.pc \in {"enter", "read"} THEN [got EXCEPT !.quiet = FALSE] ELSE got
  /\ UNCHANGED <<windowVars, appVars, runVars, poolVars, actorVars, value, lock, thtmp, returned, calls>>

\* increment: with self._lock (entry)
IncLock(t) ==
  /\ thpc[t] = "enter"
  /\ LockFree
  /\ lock' = t
  /\ thpc' = [thpc EXCEPT ![t] = "load"]
  /\ UNCHANGED <<windowVars, appVars, runVars, poolVars, actorVars, value, thtmp, returned, calls, got>>

\* increment: self._value += 1, the read
IncLoad(t) ==
  /\ thpc[t] = "load"
  /\ thtmp' = [thtmp EXCEPT ![t] = value]
  /\ thpc' = [thpc EXCEPT ![t] = "store"]
  /\ UNCHANGED <<windowVars, appVars, runVars, poolVars, actorVars, value, lock, returned, calls, got>>

\* increment: self._value += 1, the write
IncStore(t) ==
  /\ thpc[t] = "store"
  /\ value' = thtmp[t] + 1
  /\ thpc' = [thpc EXCEPT ![t] = "ret"]
  /\ UNCHANGED <<windowVars, appVars, runVars, poolVars, actorVars, lock, thtmp, returned, calls, got>>

IncReturnStale(t) ==
  /\ thpc[t] = "ret"
  /\ returned' = Append(returned, thtmp[t])
  /\ lock' = 0
  /\ calls' = [calls EXCEPT ![t] = @ + 1]
  /\ thtmp' = [thtmp EXCEPT ![t] = 0]
  /\ thpc' = [thpc EXCEPT ![t] = "idle"]
  /\ UNCHANGED <<windowVars, appVars, runVars, poolVars, actorVars, value, got>>

\* increment: return self._value, leaving the with block
IncReturn(t) ==
  /\ thpc[t] = "ret"
  /\ returned' = Append(returned, value)
  /\ lock' = 0
  /\ calls' = [calls EXCEPT ![t] = @ + 1]
  /\ thtmp' = [thtmp EXCEPT ![t] = 0]
  /\ thpc' = [thpc EXCEPT ![t] = "idle"]
  /\ UNCHANGED <<windowVars, appVars, runVars, poolVars, actorVars, value, got>>

Sum(f) ==
  LET RECURSIVE Up(_)
      Up(k) == IF k = 0 THEN 0 ELSE f[k] + Up(k - 1)
  IN Up(MaxThreads)

\* the reader calls get_value()
GetCall ==
  /\ got.pc \in {"idle", "done"}
  /\ got' = [pc |-> "enter", val |-> -1, after |-> Sum(calls),
             quiet |-> \A t \in CounterThreads : thpc[t] = "idle"]
  /\ UNCHANGED <<windowVars, appVars, runVars, poolVars, actorVars, value, lock, thpc, thtmp, returned, calls>>

\* get_value: with self._lock (entry)
GetLock ==
  /\ got.pc = "enter"
  /\ LockFree
  /\ lock' = -1
  /\ got' = [got EXCEPT !.pc = "read"]
  /\ UNCHANGED <<windowVars, appVars, runVars, poolVars, actorVars, value, thpc, thtmp, returned, calls>>

\* get_value: return self._value, leaving the with block
GetReturn ==
  /\ got.pc = "read"
  /\ got' = [got EXCEPT !.pc = "done", !.val = value]
  /\ lock' = 0
  /\ UNCHANGED <<windowVars, appVars, runVars, poolVars, actorVars, value, thpc, thtmp, returned, calls>>

CounterSpecInit ==
  /\ strategy = "none"
  /\ image_paths = <<>>
  /\ tasks = <<>>
  /\ results = <<>>
  /\ cpc = "counter"
  /\ ci = 0
  /\ want = 0
  /\ fate = [p \in Catalogue |-> "none"]
  /\ PoolInit(MaxWorkers, MaxPermits)
  /\ ActorsInit(MaxActors)
  /\ CounterInit(MaxThreads)
  /\ NoApp

CounterNext ==
  \/ \E t \in CounterThreads : IncCall(t)
  \/ \E t \in CounterThreads : IncLock(t)
  \/ \E t \in CounterThreads : IncLoad(t)
  \/ \E t \in CounterThreads : IncStore(t)
  \/ \E t \in CounterThreads : IncReturn(t)
  \/ GetCall
  \/ GetLock
  \/ GetReturn

CounterSpec == CounterSpecInit /\ [][CounterNext]_vars

\* ------------------------------------------------------ the applications
\* The two applications (prueba.py, prueba2.py): each starts a run of a
\* strategy over its image list, while its window goes on handling the
\* events that change that list, and records the elapsed time of the run.
Programs == {"prueba", "prueba2"}

\* prueba.py: compare_strategies (sequential), apply_filter (multiprocess,
\* multithread, actor); prueba2.py: run_sequential_then_parallel
\* (sequential, then multithread or actor)
StrategiesOf(p) == IF p = "prueba" THEN Strategies ELSE Strategies \ {"process"}

\* Whether the run reads the application's own list object: prueba.py hands
\* every run a list built when the run is started; prueba2.py passes
\* self.image_paths itself to process_image_sequential and
\* process_image_actor, and builds the multithread tasks from it when that
\* phase begins.
SharesList(p) == p = "prueba2"

\* the key of self.metrics a strategy's runs belong to
MetricKey(p, s) ==
  IF p = "prueba"
    THEN CASE s = "sequential" -> "sequential"
           [] s = "process" -> "parallel_process"
           [] s = "thread" -> "parallel_thread"
           [] s = "actor" -> "actor_model"
    ELSE CASE s = "sequential" -> "Secuencial"
           [] s = "thread" -> "Multihilo"
           [] s = "actor" -> "Modelo Actor"

MetricKeys(p) == {MetricKey(p, s) : s \in StrategiesOf(p)}

\* elapsed = time.time() - start_time
Elapsed == "elapsed"

\* Whether the code that ends a run appends its elapsed time to self.metrics:
\* run_sequential_then_parallel stores the sequential phase's time in
\* self.execution_times only.
AppendsSample(p, s) == ~(p = "prueba2" /\ s = "sequential")

\* apply_filter / compare_strategies / start_processing have just started a
\* run: they refuse an empty list.
AppInit ==
  /\ program \in Programs
  /\ strategy \in StrategiesOf(program)
  /\ \E n \in 1..MaxTasks : image_paths = ImageList(n)
  /\ self_image_paths = image_paths
  /\ batch = image_paths
  /\ metrics = [k \in MetricKeys(program) |-> <<>>]
  /\ events = 0
  /\ NoWindow
  /\ tasks = <<>>
  /\ results = <<>>
  /\ cpc = CASE strategy = "sequential" -> "loop"
             [] strategy \in Pooled -> "build"
             [] strategy = "actor" -> "create"
  /\ ci = 0
  /\ want = 0
  /\ fate = [p \in Catalogue |-> "none"]
  /\ PoolInit(MaxWorkers, MaxPermits)
  /\ ActorsInit(MaxActors)
  /\ CounterInit(MaxThreads)

\* The window handles events while the run is going: every run is on a
\* thread of its own, except compare_strategies, which runs the sequential
\* strategy inside its own event handler. Events are explored up to the
\* run's last read of an image list (the end of its loop over the paths, its
\* task building, the evaluation of range(len(image_paths))); later ones
\* change self.image_paths only.
GuiFree ==
  /\ cpc \in {"loop", "build", "create", "submit", "range"}
  /\ ~(program = "prueba" /\ strategy = "sequential")
  /\ events < MaxEvents

\* load_images / drop_event with one path that is not in the list:
\* self.image_paths.append(path)
LoadImages ==
  /\ program \in Programs
  /\ GuiFree
  /\ Len(self_image_paths) < MaxTasks
  /\ self_image_paths' =
       Append(self_image_paths, PathAt(Len(self_image_paths) + 1))
  /\ image_paths' = IF SharesList(program) THEN self_image_paths' ELSE image_paths
  /\ events' = events + 1
  /\ UNCHANGED <<strategy, tasks, results, cpc, ci, want, fate, program, batch,
                 metrics, poolVars, actorVars, counterVars, windowVars>>

\* clear_list: self.image_paths.clear()
ClearList ==
  /\ program \in Programs
  /\ GuiFree
  /\ self_image_paths # <<>>
  /\ self_image_paths' = <<>>
  /\ image_paths' = IF SharesList(program) THEN self_image_paths' ELSE image_paths
  /\ events' = events + 1
  /\ UNCHANGED <<strategy, tasks, results, cpc, ci, want, fate, program, batch,
                 metrics, poolVars, actorVars, counterVars, windowVars>>

\* the end of a run: self.metrics[key].append(elapsed), where the code has it
Record ==
  /\ program \in Programs
  /\ cpc = "done"
  /\ cpc' = "recorded"
  /\ metrics' =
       IF AppendsSample(program, strategy)
         THEN [metrics EXCEPT ![MetricKey(program, strategy)] = Append(@, Elapsed)]
         ELSE metrics
  /\ UNCHANGED <<strategy, image_paths, tasks, results, ci, want, fate, program,
                 self_image_paths, batch, events, poolVars, actorVars,
                 counterVars, windowVars>>

AppNext ==
  \/ Next
  \/ LoadImages
  \/ ClearList
  \/ Record

AppSpec == AppInit /\ [][AppNext]_vars

\* Fair scheduling of an application's run: the threads of the run as in
\* FairSpec, and the Tk main loop runs the callback the run schedules at its
\* end. The user's events are under no obligation to happen.
AppFairSpec ==
  /\ AppSpec
  /\ WF_vars(CallerStep)
  /\ WF_vars(\E i \in 1..MaxTasks : TaskStep(i))
  /\ \A a \in 1..MaxActors : WF_vars(ActorStep(a))
  /\ WF_vars(Record)

\* ------------------------------------------------- process_image alone
\* process_image called a few times on tasks of any path, filter, output
\* folder and method tag (prueba.py has no method field: its tag is
\* selected_filter.lower()).
Filters == {"Desenfoque", "Grises"}
OutputFolders == {"output", "salida"}
MethodTags(f) == {"secuencial", "multihilo", "actor", Lower(f)}

\* the text of a path: directory, separator, file name pieces, extension
PathText(p) == <<p.dir, "/">> \o p.name \o <<p.ext>>

NamingInit ==
  /\ strategy = "none"
  /\ image_paths = <<>>
  /\ tasks = <<>>
  /\ results = <<>>
  /\ cpc = "naming"
  /\ ci = 0
  /\ want = 0
  /\ fate = [p \in Catalogue |-> "none"]
  /\ PoolInit(MaxWorkers, MaxPermits)
  /\ ActorsInit(MaxActors)
  /\ CounterInit(MaxThreads)
  /\ NoApp

\* result = process_image((image_path, selected_filter, output_folder, method))
ProcessCall ==
  /\ cpc = "naming"
  /\ Len(tasks) < MaxCalls
  /\ \E k \in 1..MaxTasks, f \in Filters, d \in OutputFolders :
       \E m \in MethodTags(f) :
         LET task == [image_path |-> PathAt(k), selected_filter |-> f,
                      output_folder |-> d, method |-> m]
         IN \E o \in Outcomes(task) :
              /\ tasks' = Append(tasks, task)
              /\ results' = Append(results, Execute(task, o))
  /\ UNCHANGED <<strategy, image_paths, cpc, ci, want, fate, poolVars,
                 actorVars, counterVars, appVars, windowVars>>

NamingNext == ProcessCall

NamingSpec == NamingInit /\ [][NamingNext]_vars

\* ------------------------------------------------------- the reports
\* What the windows display from the recorded times. Times are whole clock
\* ticks, quotients are exact fractions, and a division by zero is the
\* exception Python raises.
Samples == 0..MaxSample
Workers == 4

Frac(n) == [num |-> n, den |-> 1]
ZeroDivisionError == [raised |-> "ZeroDivisionError"]
NotShown == [skipped |-> TRUE]
IsNumber(x) == DOMAIN x = {"num", "den"}

\* x / y
Div(x, y) ==
  IF y.num = 0 THEN ZeroDivisionError
  ELSE [num |-> x.num * y.den, den |-> x.den * y.num]

\* x == y, for two numbers
FracEq(x, y) == x.num * y.den = y.num * x.den

\* (x / n) * 100
Percent(x, n) ==
  IF n = 0 THEN ZeroDivisionError ELSE [num |-> x.num * 100, den |-> x.den * n]

\* sum(h)
RECURSIVE SumOf(_)
SumOf(h) == IF h = <<>> THEN 0 ELSE Head(h) + SumOf(Tail(h))

\* sum(h) / len(h)
Mean(h) == Div(Frac(SumOf(h)), Frac(Len(h)))

AverageUnguarded(h) == Mean(h)

\* prueba.py update_comparison_chart: avg_time of one strategy
Average(h) == IF h # <<>> THEN Mean(h) ELSE Frac(0)

\* prueba.py update_comparison_chart: the speedup and efficiency it logs
ChartSpeedup(m) ==
  IF m["sequential"] # <<>> /\ m["parallel_process"] # <<>>
    THEN LET seq_avg == Mean(m["sequential"])
             par_avg == Mean(m["parallel_process"])
         IN IF par_avg.num > 0 THEN Div(seq_avg, par_avg) ELSE NotShown
    ELSE NotShown

ChartEfficiency(m, paths) ==
  LET speedup == ChartSpeedup(m)
      theoretical_max == Len(paths)
  IN IF ~IsNumber(speedup) THEN speedup
     ELSE IF theoretical_max > 0 THEN Percent(speedup, theoretical_max)
     ELSE Frac(0)

ChartReport(m, paths) ==
  [avg |-> [k \in DOMAIN m |-> Average(m[k])],
   speedup |-> ChartSpeedup(m),
   efficiency |-> ChartEfficiency(m, paths)]

\* prueba2.py: execution_times["Secuencial"] / execution_times["Paralelo"]
Ratio(t) == Div(Frac(t.Secuencial), Frac(t.Paralelo))

\* prueba2.py update_metrics, finish_processing's summary and
\* update_comparison_chart: the quotient under "if ... > 0"
GuardedReport(t) ==
  IF t.Paralelo > 0
    THEN [speedup |-> Ratio(t), efficiency |-> Percent(Ratio(t), Workers)]
    ELSE [speedup |-> NotShown, efficiency |-> NotShown]

\* prueba2.py finish_processing: the f-string of the completion dialog
DialogReport(t) == [speedup |-> Ratio(t), efficiency |-> NotShown]

FinishReports(t) ==
  [place \in {"labels", "log", "chart", "dialog"} |->
     IF place = "dialog" THEN DialogReport(t) ELSE GuardedReport(t)]

\* the number of samples self.metrics holds, all keys together
TotalSamples ==
  Cardinality(UNION {{<<k, i>> : i \in 1..Len(metrics[k])} : k \in DOMAIN metrics})

\* A window with an image list and no run made yet.
ReportInit ==
  /\ program \in Programs
  /\ \E n \in 0..MaxBatch : self_image_paths = ImageList(n)
  /\ image_paths = self_image_paths
  /\ batch = self_image_paths
  /\ metrics = [k \in MetricKeys(program) |-> <<>>]
  /\ events = 0
  /\ NoWindow
  /\ strategy = "none"
  /\ tasks = <<>>
  /\ results = <<>>
  /\ cpc = "report"
  /\ ci = 0
  /\ want = 0
  /\ fate = [p \in Catalogue |-> "none"]
  /\ PoolInit(MaxWorkers, MaxPermits)
  /\ ActorsInit(MaxActors)
  /\ CounterInit(MaxThreads)

ReportFrame ==
  UNCHANGED <<runVars, poolVars, actorVars, counterVars, program,
              batch, events, runs, processed_counter, error_counter,
              progress_bar, currently_processing>>

\* prueba.py update_ui, last call of a run: self.metrics[key].append(elapsed)
RunEnds(k, e) ==
  /\ cpc = "report" /\ program = "prueba"
  /\ k \in MetricKeys(program) \ {"sequential"}
  /\ TotalSamples < MaxHistory
  /\ metrics' = [metrics EXCEPT ![k] = Append(@, e)]
  /\ UNCHANGED <<self_image_paths, execution_times, shown>>
  /\ ReportFrame

\* prueba.py compare_strategies: the sequential run inside the handler, its
\* sample, then update_comparison_chart()
CompareStrategies(e) ==
  /\ cpc = "report" /\ program = "prueba"
  /\ self_image_paths # <<>>
  /\ TotalSamples < MaxHistory
  /\ metrics' = [metrics EXCEPT !["sequential"] = Append(@, e)]
  /\ shown' = [place \in {"chart"} |-> ChartReport(metrics', self_image_paths)]
  /\ UNCHANGED <<self_image_paths, execution_times>>
  /\ ReportFrame

\* prueba2.py start_processing .. finish_processing, as far as the times go:
\* the times are reset, each phase stores its elapsed time, the parallel
\* phase appends its own to self.metrics, and finish_processing reports.
ComparisonRun(k, e1, e2) ==
  /\ cpc = "report" /\ program = "prueba2"
  /\ self_image_paths # <<>>
  /\ k \in MetricKeys(program) \ {"Secuencial"}
  /\ TotalSamples < MaxHistory
  /\ execution_times' = [Secuencial |-> e1, Paralelo |-> e2]
  /\ metrics' = [metrics EXCEPT ![k] = Append(@, e2)]
  /\ shown' = FinishReports(execution_times')
  /\ UNCHANGED self_image_paths
  /\ ReportFrame

\* prueba2.py clear_list: the list is emptied and update_metrics() called
ClearListReport ==
  /\ cpc = "report" /\ program = "prueba2"
  /\ self_image_paths # <<>>
  /\ self_image_paths' = <<>>
  /\ shown' = [place \in DOMAIN shown \cup {"labels"} |->
                IF place = "labels" THEN GuardedReport(execution_times)
                ELSE shown[place]]
  /\ UNCHANGED <<metrics, execution_times>>
  /\ ReportFrame

ReportNext ==
  \/ \E k \in MetricKeys(program), e \in Samples : RunEnds(k, e)
  \/ \E e \in Samples : CompareStrategies(e)
  \/ \E k \in MetricKeys(program), e1, e2 \in Samples : ComparisonRun(k, e1, e2)
  \/ ClearListReport

ReportSpec == ReportInit /\ [][ReportNext]_vars

\* ------------------------------------------------------- a session
\* A window through several runs. A run is followed through what the window
\* sees of it: its tasks entering and leaving the gate, its results reaching
\* the result queue, and the update_ui calls that consume them. The elapsed
\* time of the r-th run is r ticks, so that the samples of different runs
\* are told apart.
ElapsedOf(r) == r

\* the values of strategy_var (compare_strategies is a button of its own)
SessionStrategies(p) ==
  IF p = "prueba" THEN {"process", "thread", "actor"} ELSE {"thread", "actor"}

\* a run just started over n tasks
NewRun(s, n) ==
  [strategy |-> s, total |-> n, entered |-> 0, ok |-> 0, err |-> 0,
   pending |-> [ok |-> 0, err |-> 0], processed |-> 0, ui |-> "scheduled",
   tally_at_start |-> 0, active_at_start |-> GetActive]

\* tasks of a run that are between semaphore.acquire() and release()
Holding(run) ==
  IF run.strategy = "thread" /\ run.ui \in {"scheduled", "done"}
    THEN run.entered - (run.ok + run.err)
    ELSE 0

\* k calls of increment() on a SharedCounter, made for the results of run r
Bump(c, r, k) ==
  IF k = 0 THEN c
  ELSE [c EXCEPT !.value = @ + k, !.by = @ \cup {r}]

SessionInit ==
  /\ program \in Programs
  /\ strategy \in SessionStrategies(program)
  /\ \E n \in 0..MaxBatch : self_image_paths = ImageList(n)
  /\ image_paths = <<>>
  /\ batch = <<>>
  /\ metrics = [k \in MetricKeys(program) |-> <<>>]
  /\ events = 0
  /\ NoWindow
  /\ tasks = <<>>
  /\ results = <<>>
  /\ cpc = "session"
  /\ ci = 0
  /\ want = 0
  /\ fate = [p \in Catalogue |-> "none"]
  /\ PoolInit(MaxWorkers, MaxPermits)
  /\ ActorsInit(MaxActors)
  /\ CounterInit(MaxThreads)

WindowFrame ==
  UNCHANGED <<image_paths, tasks, cpc, ci, want, fate, max_workers,
              max_concurrent, tpc, fres, acquires, releases, actorVars,
              counterVars, program, batch>>

\* ... and self.all_results of the comparison window, kept in 'results'
SessionFrame == WindowFrame /\ UNCHANGED results

\* the results of one phase of a comparison run over the list 'paths', in
\* the order 'order' of their arrival
PhaseResults(paths, phase, order) ==
  [i \in 1..Len(paths) |-> [original |-> paths[order[i]], phase |-> phase]]

\* the orders in which n results can arrive
Orders(n) == Permutations(1..n)

\* the order of the list
InOrder(n) == [i \in 1..n |-> i]

InSession(p) == cpc = "session" /\ program = p

\* the tasks of the runs started so far
RECURSIVE WorkOf(_)
WorkOf(rs) == IF rs = <<>> THEN 0 ELSE Head(rs).total + WorkOf(Tail(rs))

\* one more run over the list as it is can be started
CanStart ==
  /\ Len(runs) < MaxRuns
  /\ WorkOf(runs) + Len(self_image_paths) <= MaxWork

\* prueba.py apply_filter and the apply_filter_* it calls: new counters, the
\* task list, the progress bar, and the thread of the run
ApplyFilter ==
  /\ InSession("prueba")
  /\ self_image_paths # <<>>
  /\ CanStart
  /\ processed_counter' = NewCounter(Len(runs) + 1)
  /\ error_counter' = NewCounter(Len(runs) + 1)
  /\ progress_bar' = [value |-> 0, maximum |-> Len(self_image_paths)]
  /\ runs' = Append(runs, NewRun(strategy, Len(self_image_paths)))
  /\ UNCHANGED <<strategy, self_image_paths, metrics, events, permits,
                 active_processes, currently_processing, execution_times,
                 shown>>
  /\ SessionFrame

\* prueba.py process_with_semaphore: self.semaphore.acquire() returns
TaskEnters(r) ==
  /\ InSession("prueba")
  /\ runs[r].strategy = "thread"
  /\ runs[r].entered < runs[r].total
  /\ permits > 0
  /\ permits' = permits - 1
  /\ active_processes' = active_processes + 1
  /\ runs' = [runs EXCEPT ![r].entered = @ + 1]
  /\ UNCHANGED <<strategy, self_image_paths, metrics, events,
                 processed_counter, error_counter, progress_bar,
                 currently_processing, execution_times, shown>>
  /\ SessionFrame

\* prueba.py: a task of the run ends (self.semaphore.release() in the
\* thread strategy) and its result reaches the queue update_ui reads
TaskFinishes(r, status) ==
  /\ InSession("prueba")
  /\ runs[r].strategy \in SessionStrategies("prueba")
  /\ IF runs[r].strategy = "thread"
       THEN /\ Holding(runs[r]) > 0
            /\ permits' = permits + 1
            /\ active_processes' = active_processes - 1
       ELSE /\ runs[r].ok + runs[r].err < runs[r].total
            /\ UNCHANGED <<permits, active_processes>>
  /\ runs' = IF status = "OK"
               THEN [runs EXCEPT ![r].ok = @ + 1, ![r].pending.ok = @ + 1]
               ELSE [runs EXCEPT ![r].err = @ + 1, ![r].pending.err = @ + 1]
  /\ UNCHANGED <<strategy, self_image_paths, metrics, events,
                 processed_counter, error_counter, progress_bar,
                 currently_processing, execution_times, shown>>
  /\ SessionFrame

\* prueba.py update_ui of run r: the queue is drained, each result
\* incrementing self.processed_counter or self.error_counter and the
\* progress bar; then the call is scheduled again or the sample appended.
\* run_actor_processing schedules it when process_image_actor has returned
\* and counts in its own 'processed'.
UpdateUi(r) ==
  /\ InSession("prueba")
  /\ runs[r].ui = "scheduled"
  /\ runs[r].strategy = "actor" => runs[r].ok + runs[r].err = runs[r].total
  /\ LET run == runs[r]
         drained == run.pending.ok + run.pending.err
         bar_value == progress_bar.value + drained
         processed == run.processed + drained
         finished == IF run.strategy = "actor" THEN ~(processed < run.total)
                     ELSE ~(bar_value < run.total)
     IN /\ processed_counter' = Bump(processed_counter, r, run.pending.ok)
        /\ error_counter' = Bump(error_counter, r, run.pending.err)
        /\ progress_bar' = [progress_bar EXCEPT !.value = bar_value]
        /\ runs' = [runs EXCEPT ![r].pending = [ok |-> 0, err |-> 0],
                                ![r].processed = processed,
                                ![r].ui = IF finished THEN "done" ELSE "scheduled"]
        /\ metrics' =
             IF finished
               THEN [metrics EXCEPT ![MetricKey("prueba", run.strategy)] =
                                      Append(@, ElapsedOf(r))]
               ELSE metrics
  /\ UNCHANGED <<strategy, self_image_paths, events, permits,
                 active_processes, currently_processing, execution_times,
                 shown>>
  /\ SessionFrame

\* prueba.py compare_strategies: the sequential run inside the handler (k of
\* its results OK), its sample, the chart
CompareRun(k) ==
  /\ InSession("prueba")
  /\ self_image_paths # <<>>
  /\ CanStart
  /\ k \in 0..Len(self_image_paths)
  /\ runs' = Append(runs,
       [NewRun("sequential", Len(self_image_paths))
          EXCEPT !.ok = k, !.err = Len(self_image_paths) - k, !.ui = "done",
                 !.tally_at_start = processed_counter.value + error_counter.value])
  /\ metrics' = [metrics EXCEPT !["sequential"] = Append(@, ElapsedOf(Len(runs')))]
  /\ shown' = [place \in DOMAIN shown \cup {"chart"} |->
                IF place = "chart" THEN ChartReport(metrics', self_image_paths)
                ELSE shown[place]]
  /\ UNCHANGED <<strategy, self_image_paths, events, permits,
                 active_processes, processed_counter, error_counter,
                 progress_bar, currently_processing, execution_times>>
  /\ SessionFrame

StartProcessingUnguarded ==
  /\ InSession("prueba2")
  /\ self_image_paths # <<>>
  /\ CanStart
  /\ currently_processing' = TRUE
  /\ execution_times' = [Secuencial |-> 0, Paralelo |-> 0]
  /\ progress_bar' = [value |-> 0, maximum |-> Len(self_image_paths) * 2]
  /\ runs' = Append(runs,
       [NewRun(strategy, Len(self_image_paths))
          EXCEPT !.ui = "sequential",
                 !.tally_at_start = processed_counter.value + error_counter.value])
  /\ results' = <<>>
  /\ UNCHANGED <<strategy, self_image_paths, metrics, events, permits,
                 active_processes, processed_counter, error_counter, shown>>
  /\ WindowFrame

\* prueba2.py start_processing: with an empty list or with a run in
\* progress it shows a warning and returns; otherwise it sets the flag,
\* resets the times and the progress bar and starts the thread of the run
StartProcessing ==
  /\ InSession("prueba2")
  /\ self_image_paths # <<>>
  /\ IF currently_processing
       THEN UNCHANGED <<currently_processing, execution_times, progress_bar,
                        runs, results>>
       ELSE /\ CanStart
            /\ currently_processing' = TRUE
            /\ execution_times' = [Secuencial |-> 0, Paralelo |-> 0]
            /\ progress_bar' = [value |-> 0, maximum |-> Len(self_image_paths) * 2]
            /\ runs' = Append(runs,
                 [NewRun(strategy, Len(self_image_paths))
                    EXCEPT !.ui = "sequential",
                           !.tally_at_start = processed_counter.value + error_counter.value])
            /\ results' = <<>>
  /\ UNCHANGED <<strategy, self_image_paths, metrics, events, permits,
                 active_processes, processed_counter, error_counter, shown>>
  /\ WindowFrame

\* prueba2.py run_sequential_then_parallel, first half: the sequential
\* phase over self.image_paths as it is, its time, one update_progress per
\* result
SequentialPhase(r) ==
  /\ InSession("prueba2")
  /\ runs[r].ui = "sequential"
  /\ execution_times' = [execution_times EXCEPT !.Secuencial = ElapsedOf(r)]
  /\ progress_bar' = [progress_bar EXCEPT !.value = @ + Len(self_image_paths)]
  /\ runs' = [runs EXCEPT ![r].ui = "parallel"]
  /\ results' = results \o PhaseResults(self_image_paths, "sequential",
                                         InOrder(Len(self_image_paths)))
  /\ UNCHANGED <<strategy, self_image_paths, metrics, events, permits,
                 active_processes, processed_counter, error_counter,
                 currently_processing, shown>>
  /\ WindowFrame

\* prueba2.py run_sequential_then_parallel, second half: run_multithread_version
\* or run_actor_version over self.image_paths as it is (k results OK), the
\* sample and the time, one update_progress per result
ParallelPhase(r, k) ==
  /\ InSession("prueba2")
  /\ runs[r].ui = "parallel"
  /\ k \in 0..Len(self_image_paths)
  /\ metrics' = [metrics EXCEPT ![MetricKey("prueba2", runs[r].strategy)] =
                                  Append(@, ElapsedOf(r))]
  /\ execution_times' = [execution_times EXCEPT !.Paralelo = ElapsedOf(r)]
  /\ progress_bar' = [progress_bar EXCEPT !.value = @ + Len(self_image_paths)]
  /\ runs' = [runs EXCEPT ![r].ui = "finishing",
                          ![r].total = Len(self_image_paths),
                          ![r].entered = Len(self_image_paths),
                          ![r].ok = k,
                          ![r].err = Len(self_image_paths) - k]
  /\ \E order \in Orders(Len(self_image_paths)) :
       results' = results \o PhaseResults(self_image_paths, "parallel", order)
  /\ UNCHANGED <<strategy, self_image_paths, events, permits,
                 active_processes, processed_counter, error_counter,
                 currently_processing, shown>>
  /\ WindowFrame

\* prueba2.py finish_processing
FinishProcessing(r) ==
  /\ InSession("prueba2")
  /\ runs[r].ui = "finishing"
  /\ currently_processing' = FALSE
  /\ shown' = [place \in DOMAIN shown \cup DOMAIN FinishReports(execution_times) |->
                IF place \in DOMAIN FinishReports(execution_times)
                  THEN FinishReports(execution_times)[place]
                  ELSE shown[place]]
  /\ runs' = [runs EXCEPT ![r].ui = "done"]
  /\ UNCHANGED <<strategy, self_image_paths, metrics, events, permits,
                 active_processes, processed_counter, error_counter,
                 progress_bar, execution_times>>
  /\ SessionFrame

SessionEvent == cpc = "session" /\ events < MaxEvents

ClearListResets ==
  /\ SessionEvent
  /\ self_image_paths # <<>>
  /\ self_image_paths' = <<>>
  /\ metrics' = [k \in DOMAIN metrics |-> <<>>]
  /\ events' = events + 1
  /\ results' = <<>>
  /\ UNCHANGED <<strategy, runs, permits, active_processes, processed_counter,
                 error_counter, progress_bar, currently_processing,
                 execution_times, shown>>
  /\ WindowFrame

\* clear_list of either window: the list is emptied (and the labels
\* refreshed from values that do not change); prueba2.py also clears
\* self.all_results, which prueba.py does not have
SessionClearList ==
  /\ SessionEvent
  /\ self_image_paths # <<>>
  /\ self_image_paths' = <<>>
  /\ events' = events + 1
  /\ results' = <<>>
  /\ UNCHANGED <<strategy, runs, metrics, permits, active_processes,
                 processed_counter, error_counter, progress_bar,
                 currently_processing, execution_times, shown>>
  /\ WindowFrame

\* load_images / drop_event of either window with one new path
SessionLoadImages ==
  /\ SessionEvent
  /\ Len(self_image_paths) < MaxBatch
  /\ self_image_paths' =
       Append(self_image_paths, PathAt(Len(self_image_paths) + 1))
  /\ events' = events + 1
  /\ UNCHANGED <<strategy, runs, metrics, permits, active_processes,
                 processed_counter, error_counter, progress_bar,
                 currently_processing, execution_times, shown>>
  /\ SessionFrame

\* select_output_folder of either window: self.output_folder and the label
\* that shows it
SelectOutputFolder(folder) ==
  /\ SessionEvent
  /\ shown' = [place \in DOMAIN shown \cup {"output_label"} |->
                IF place = "output_label"
                  THEN [speedup |-> NotShown, efficiency |-> NotShown,
                        folder |-> folder]
                  ELSE shown[place]]
  /\ shown' # shown
  /\ events' = events + 1
  /\ UNCHANGED <<strategy, self_image_paths, runs, metrics, permits,
                 active_processes, processed_counter, error_counter,
                 progress_bar, currently_processing, execution_times>>
  /\ SessionFrame

\* a radio button of strategy_var is chosen
SelectStrategy(s) ==
  /\ SessionEvent
  /\ s \in SessionStrategies(program) \ {strategy}
  /\ strategy' = s
  /\ events' = events + 1
  /\ UNCHANGED <<self_image_paths, runs, metrics, permits, active_processes,
                 processed_counter, error_counter, progress_bar,
                 currently_processing, execution_times, shown>>
  /\ SessionFrame

SessionNext ==
  \/ ApplyFilter
  \/ \E r \in DOMAIN runs : TaskEnters(r)
  \/ \E r \in DOMAIN runs, status \in {"OK", "ERROR"} : TaskFinishes(r, status)
  \/ \E r \in DOMAIN runs : UpdateUi(r)
  \/ \E k \in 0..MaxBatch : CompareRun(k)
  \/ StartProcessing
  \/ \E r \in DOMAIN runs : SequentialPhase(r)
  \/ \E r \in DOMAIN runs, k \in 0..MaxBatch : ParallelPhase(r, k)
  \/ \E r \in DOMAIN runs : FinishProcessing(r)
  \/ SessionClearList
  \/ SessionLoadImages
  \/ \E folder \in OutputFolders : SelectOutputFolder(folder)
  \/ \E s \in Strategies : SelectStrategy(s)

SessionSpec == SessionInit /\ [][SessionNext]_vars

\* ---------------------------------------------- the measured interval
\* Whether the run is past its start_time = time.time(): process_image_actor
\* takes it after the loop that creates the actors, the pool runs after the
\* task list is built, process_image_sequential before its loop.
StartTaken ==
  CASE strategy = "actor" -> cpc # "create"
    [] strategy \in Pooled -> cpc # "build"
    [] OTHER -> TRUE

\* Whether the run is past its elapsed = time.time() - start_time, the last
\* statement of every strategy.
EndTaken == cpc \in {"done", "recorded"}

\* ================================================================ claims
Originals(rs) == [k \in 1..Len(rs) |-> rs[k].original]
Sources(ts) == [k \in 1..Len(ts) |-> ts[k].image_path]

C2_ActiveWithinCapacity ==
  /\ 0 <= GetActive
  /\ GetActive <= max_concurrent

C2_Witness ==
  /\ strategy = "thread"
  /\ max_concurrent > 1
  /\ active_processes = max_concurrent
  /\ \E i \in DOMAIN tpc : tpc[i] = "queued"

\* C3: a get_value() that starts when every increment() issued so far has
\* returned, with none issued while it runs, returns the number of those
\* calls; and whenever no increment is in progress the counter holds the
\* number of completed calls.
C3_NoLostUpdate ==
  /\ (got.pc = "done" /\ got.quiet) => got.val = got.after
  /\ (\A t \in CounterThreads : thpc[t] = "idle") => value = Sum(calls)

C3_Witness ==
  /\ got.pc = "done"
  /\ got.quiet
  /\ got.val > 2
  /\ Cardinality({t \in CounterThreads : calls[t] > 0}) > 1

\* C4: the actor-pool run terminates under fair scheduling; the caller makes
\* as many reads as it submitted tasks, the outbox is empty once the last
\* read has returned, and no actor is stopped before all results are in.
C4_CollectState ==
  /\ cpc \in {"stop", "done"} =>
       /\ Len(results) = Len(tasks)
       /\ outbox = <<>>
  /\ \A a \in 1..num_actors : ~running[a] => Len(results) = Len(tasks)
  /\ cpc = "collect" => want = Len(tasks)

AllResults ==
  Range(results) \cup Range(outbox)
    \cup {ares[a] : a \in 1..num_actors} \cup {fres[i] : i \in DOMAIN fres}

C5_FailureIsolated ==
  /\ cpc # "aborted"
  /\ \A a \in 1..num_actors : apc[a] # "dead"
  /\ \A r \in AllResults :
       r.status \in {"OK", "ERROR"} =>
         /\ fate[r.original] = (IF r.status = "OK" THEN "ok" ELSE "fail")
         /\ NonEmptyText(r.message)
  /\ cpc = "done" =>
       \A k \in 1..Len(tasks) :
         /\ fate[tasks[k].image_path] \in {"ok", "fail"}
         /\ Count(Originals(results), tasks[k].image_path) = 1

C5_Witness ==
  /\ cpc = "done"
  /\ strategy = "actor"
  /\ \E j, k \in 1..Len(results) :
       /\ results[j].status = "ERROR"
       /\ results[j].message[5] = ""
       /\ results[k].status = "OK"

\* C6: each pooled execution of a thread-pool run acquires the gate once and
\* releases it once, whatever the image operation did, so a finished run
\* leaves the active count at 0 and every permit available.
C6_AcquireReleasePaired ==
  Gated =>
    /\ \A i \in DOMAIN tpc :
         /\ releases[i] <= acquires[i]
         /\ acquires[i] <= 1
         /\ tpc[i] \in {"finished", "collected"} =>
              acquires[i] = 1 /\ releases[i] = 1
    /\ cpc = "done" => active_processes = 0 /\ permits = max_concurrent

C6_Witness ==
  /\ Gated
  /\ cpc = "done"
  /\ \E j, k \in 1..Len(results) :
       results[j].status = "ERROR" /\ results[k].status = "OK"

\* C7: under fair scheduling a thread-pool run reaches the state in which
\* every pooled execution has been admitted by acquire (none waits for ever)
\* and all results have been collected.
C7_NoStarvation ==
  Gated =>
    <>(/\ cpc = "done"
       /\ Len(results) = Len(image_paths)
       /\ \A i \in DOMAIN tpc : acquires[i] = 1)

C7_Witness ==
  /\ Gated
  /\ permits = 0
  /\ \E i, j \in DOMAIN tpc : tpc[i] = "acquire" /\ tpc[j] = "dec"

\* C8: in a thread-pool run the tasks inside the image operation are never
\* more than min(pool size, gate capacity).
C8_WorkingBounded ==
  Gated => Cardinality(Working) <= Min(max_workers, max_concurrent)

\* ... and with a capacity below the pool size a pooled thread waits in
\* acquire while capacity-many others execute.
C8_Witness ==
  /\ Gated
  /\ max_concurrent < max_workers
  /\ permits = 0
  /\ Cardinality(Working) = max_concurrent
  /\ \E i \in DOMAIN tpc : tpc[i] = "acquire"

\* C9 as stated: once stop() has been called the actor dequeues no further
\* task.
C9_NoDequeueAfterStop ==
  \A a \in 1..num_actors :
    stopped_at[a] # NotStopped => dequeued[a] = stopped_at[a].deq

InFlight(a) == IF apc[a] \in {"process", "put"} THEN 1 ELSE 0

\* C9 amended: after stop() the actor dequeues at most one further task (a
\* poll already entered when stop() was called), none once its loop has
\* exited; a task in flight is never abandoned: every dequeued task has its
\* result pushed, except the one being processed.
C9_AtMostOneDequeueAfterStop ==
  \A a \in 1..num_actors :
    /\ stopped_at[a] # NotStopped => dequeued[a] <= stopped_at[a].deq + 1
    /\ pushed[a] = dequeued[a] - InFlight(a)
    /\ InFlight(a) = 1 <=> acur[a] # NoTask

\* the poll entered before stop() returned a task submitted after stop(),
\* whose result was pushed before the loop exited
C9_Witness ==
  \E a \in 1..num_actors :
    /\ apc[a] = "exited"
    /\ stopped_at[a] # NotStopped
    /\ dequeued[a] > stopped_at[a].sub
    /\ dequeued[a] = stopped_at[a].deq + 1
    /\ pushed[a] = dequeued[a]

\* C10: when an actor's loop has exited, the tasks it never dequeued are
\* still in its inbox and stay there, and no result is pushed for them.
C10_Stranded ==
  \A a \in 1..num_actors :
    apc[a] = "exited" =>
      /\ Len(inbox[a]) = submitted[a] - dequeued[a]
      /\ pushed[a] = dequeued[a]

C10_StaysStranded ==
  \A a \in 1..num_actors :
    apc[a] = "exited" =>
      /\ apc'[a] = "exited"
      /\ dequeued'[a] = dequeued[a]
      /\ pushed'[a] = pushed[a]
      /\ Len(inbox'[a]) >= Len(inbox[a])
      /\ SubSeq(inbox'[a], 1, Len(inbox[a])) = inbox[a]

\* C10: draining on stop is not guaranteed: what an exited loop left in its
\* inbox is exactly what it never dequeued, it has no result, and it stays.
C10_NoDrainOnStop == [](C10_Stranded) /\ [][C10_StaysStranded]_vars

\* a task submitted before stop() that is still in the inbox of an exited actor
C10_Witness ==
  \E a \in 1..num_actors :
    /\ apc[a] = "exited"
    /\ inbox[a] # <<>>
    /\ dequeued[a] < stopped_at[a].sub

\* the tasks of an actor-pool run whose 0-based index is congruent to a - 1,
\* in submission order
SentTo(a) ==
  LET RECURSIVE Upto(_)
      Upto(k) ==
        IF k = 0 THEN <<>>
        ELSE IF (k - 1) % num_actors = a - 1
          THEN Append(Upto(k - 1), tasks[k])
          ELSE Upto(k - 1)
  IN Upto(Len(tasks))

\* the results pushed so far that belong to tasks sent to actor a, in the
\* order they were pushed (the caller moves them from the outbox to results
\* in queue order)
PushedBy(a) ==
  SelectSeq(results \o outbox,
            LAMBDA r : \E k \in 1..Len(SentTo(a)) :
                         SentTo(a)[k].image_path = r.original)

\* C11: for each actor of an actor-pool run, the paths of the results it has
\* pushed, then the task it has in flight, then its inbox, are the tasks
\* submitted to it in submission order: it dequeues and pushes in that order.
C11_PerActorFifo ==
  strategy = "actor" =>
    \A a \in 1..num_actors :
      /\ Originals(PushedBy(a))
           \o (IF acur[a] = NoTask THEN <<>> ELSE <<acur[a].image_path>>)
           \o Sources(inbox[a])
         = Sources(SentTo(a))
      /\ Len(PushedBy(a)) = pushed[a]
      /\ Len(SentTo(a)) = submitted[a]

\* two tasks of one actor in submission order around a result of another
\* actor's later-submitted task that overtook the first
C11_Witness ==
  /\ strategy = "actor"
  /\ cpc = "done"
  /\ num_actors = 2
  /\ Len(results) > 2
  /\ results[1].original = tasks[2].image_path
  /\ results[2].original = tasks[1].image_path
  /\ results[3].original = tasks[3].image_path

\* C12: in an actor-pool run every actor has been sent exactly the tasks whose
\* 0-based index is congruent to its own modulo the number of actors, so each
\* count is floor(T/A) or ceil(T/A) and two counts differ by at most 1.
C12_RoundRobin ==
  strategy = "actor" =>
    LET A == num_actors
        T == Len(tasks)
    IN /\ A >= 1
       /\ \A a \in 1..A :
            /\ submitted[a] = Cardinality({i \in 0..(T - 1) : i % A = a - 1})
            /\ submitted[a] \in {T \div A, (T + A - 1) \div A}
       /\ \A a, b \in 1..A :
            /\ submitted[a] - submitted[b] <= 1
            /\ a < b => submitted[a] >= submitted[b]

C12_Witness ==
  /\ strategy = "actor"
  /\ cpc = "collect"
  /\ num_actors > 1
  /\ Len(tasks) % num_actors # 0
  /\ submitted[1] = 2
  /\ submitted[num_actors] = 1

\* C13: in a sequential run the k-th result is the result of the k-th image
\* path, and a task is started only when every earlier task has its result
\* in the list (one task at a time).
C13_SequentialOrder ==
  strategy = "sequential" =>
    /\ Len(results) <= Len(image_paths)
    /\ Len(tasks) = Len(results)
    /\ \A k \in 1..Len(results) :
         /\ results[k].original = image_paths[k]
         /\ tasks[k].image_path = image_paths[k]
         /\ results[k].method = "secuencial"
    /\ cpc = "done" => Len(results) = Len(image_paths)

C13_Witness ==
  /\ strategy = "sequential"
  /\ cpc = "done"
  /\ Len(results) > 2
  /\ results[1].status = "OK"
  /\ results[2].status = "ERROR"
  /\ results[3].status = "OK"

\* the executions of a thread-pool run that hold a permit of the semaphore:
\* past self.semaphore.acquire() and not yet past self.semaphore.release()
Holders == {i \in DOMAIN tpc : tpc[i] \in {"inc", "work", "dec", "sem_release"}}

\* C14 as stated: acquire admits and counts in one step, so what get_active()
\* returns is the number of current holders in every state.
C14_ActiveEqualsHolders ==
  Gated => GetActive = Cardinality(Holders)

\* C15: the values returned by the increment() calls completed so far are
\* 1, 2, ..., k, each once (the i-th call to return gets i), k being the
\* number of completed calls; the counter never goes down, and a get_value()
\* returns the counter as it is when it returns.
C15_Ranks ==
  /\ Len(returned) = Sum(calls)
  /\ \A k \in 1..Len(returned) : returned[k] = k
  /\ Len(returned) <= value
  /\ got.pc = "done" => got.val <= value

C15_Step ==
  /\ value' >= value
  /\ (got.pc = "read" /\ got'.pc = "done") => (got'.val = value /\ value' = value)
  /\ Len(returned') > Len(returned) =>
       /\ returned' = Append(returned, value)
       /\ value' = value

C15_IncrementReturns == [](C15_Ranks) /\ [][C15_Step]_vars

\* increments of several threads have returned 1, 2, 3, ... and a reader
\* got a value between two of them
C15_Witness ==
  /\ Len(returned) > 3
  /\ Cardinality({t \in CounterThreads : calls[t] > 0}) > 1
  /\ got.pc = "done"
  /\ got.val > 0
  /\ got.val < Len(returned)

\* C17: an actor's loop exits only when its flag is down, and after stop() it
\* enters no further poll than the one it was in and takes at most one more
\* task.
C17_ExitOnlyStopped ==
  \A a \in 1..num_actors :
    /\ apc[a] = "exited" => ~running[a]
    /\ running[a] => stopped_at[a] = NotStopped
    /\ ~running[a] =>
         /\ dequeued[a] <= stopped_at[a].deq + 1
         /\ apc[a] = "poll" => dequeued[a] = stopped_at[a].deq

\* C17: ... and under fair scheduling every stopped actor's loop exits: a
\* flag once down stays down and an exited loop stays exited, so from some
\* point on every actor whose flag is down has exited.
C17_LoopExits ==
  /\ [](C17_ExitOnlyStopped)
  /\ <>[](\A a \in 1..num_actors : ~running[a] => apc[a] = "exited")

\* an actor stopped while it was processing a task has pushed the result
\* and exited, leaving its inbox as it was
C17_Witness ==
  \E a \in 1..num_actors :
    /\ apc[a] = "exited"
    /\ dequeued[a] = stopped_at[a].deq
    /\ pushed[a] > 0
    /\ inbox[a] # <<>>

\* C18: a stop() call lowers the flag of its actor and nothing else: every
\* inbox, the outbox, the other actors' flags and the position and task of
\* every actor's loop are as before; it can be called whatever the loop is
\* doing, and returns with the loop still where it was.
C18_StopStep ==
  \A a \in 1..num_actors :
    (running[a] /\ ~running'[a]) =>
      /\ inbox' = inbox
      /\ outbox' = outbox
      /\ apc' = apc
      /\ acur' = acur
      /\ ares' = ares
      /\ dequeued' = dequeued
      /\ submitted' = submitted
      /\ pushed' = pushed
      /\ \A b \in 1..num_actors : b # a => running'[b] = running[b]

C18_StopCallable ==
  \A a \in 1..num_actors : running[a] => ENABLED LoneStop(a)

C18_StopFrame == [](C18_StopCallable) /\ [][C18_StopStep]_vars

\* stop() was called while the actor was inside the image operation, with
\* tasks in its inbox and results in the outbox, and the loop is still there
C18_Witness ==
  \E a, b \in 1..num_actors :
    /\ ~running[a]
    /\ apc[a] = "process"
    /\ dequeued[a] = stopped_at[a].deq
    /\ inbox[a] # <<>>
    /\ outbox # <<>>
    /\ running[b]

\* C19: a submit() call appends its task at the tail of its actor's inbox
\* and changes no other inbox, not the outbox, no flag and no loop; it can be
\* called whatever the actor is doing, stopped or not.
C19_SubmitStep ==
  \A a \in 1..num_actors :
    submitted'[a] # submitted[a] =>
      /\ submitted'[a] = submitted[a] + 1
      /\ Len(tasks') = Len(tasks) + 1
      /\ inbox'[a] = Append(inbox[a], tasks'[Len(tasks')])
      /\ \A b \in 1..num_actors : b # a =>
           inbox'[b] = inbox[b] /\ submitted'[b] = submitted[b]
      /\ outbox' = outbox
      /\ running' = running
      /\ apc' = apc
      /\ acur' = acur

C19_SubmitCallable ==
  Len(tasks) < MaxSubmits => \A a \in 1..num_actors : ENABLED LoneSubmit(a)

C19_SubmitFrame == [](C19_SubmitCallable) /\ [][C19_SubmitStep]_vars

\* one actor got a task after its loop had exited; another got one behind
\* the task it is processing
C19_Witness ==
  \E a, b \in 1..num_actors :
    /\ apc[a] = "exited"
    /\ submitted[a] > stopped_at[a].sub
    /\ inbox[a] # <<>>
    /\ apc[b] = "process"
    /\ inbox[b] # <<>>

\* C16 as stated: the batch of a run is the image list as it was when the run
\* started, whatever is loaded or cleared meanwhile: the tasks built so far
\* are the first paths of that list, the actor-pool run collects as many
\* results as that list has paths, and a finished run has executed exactly
\* that list and has one result for each of its paths.
C16_BatchFixed ==
  program \in Programs =>
    /\ Len(tasks) <= Len(batch)
    /\ \A k \in 1..Len(tasks) : tasks[k].image_path = batch[k]
    /\ (strategy = "actor" /\ cpc \in {"collect", "stop", "done", "recorded"}) =>
         want = Len(batch)
    /\ cpc \in {"done", "recorded"} =>
         /\ Len(tasks) = Len(batch)
         /\ Len(results) = Len(batch)

\* C20 as stated: the run of strategy S that has just been completed has
\* appended one sample to the history of S and none to any other history.
C20_OneSamplePerRun ==
  program \in Programs =>
    \A k \in DOMAIN metrics :
      Len(metrics[k]) =
        (IF cpc = "recorded" /\ k = MetricKey(program, strategy) THEN 1 ELSE 0)

\* C27: an OK result's output path is output_folder / name _ method ext of
\* its own task: two calls on the same task give the same path, and two
\* calls on tasks that differ only in the method tag give different paths.
C27_OutputNaming ==
  cpc = "naming" =>
    \A i, j \in 1..Len(results) :
      (results[i].status = "OK" /\ results[j].status = "OK") =>
        /\ PathText(results[i].output)
             = <<tasks[i].output_folder, "/", tasks[i].image_path.name, "_",
                 tasks[i].method, tasks[i].image_path.ext>>
        /\ tasks[i] = tasks[j] =>
             PathText(results[i].output) = PathText(results[j].output)
        /\ (/\ tasks[i].method # tasks[j].method
            /\ [tasks[i] EXCEPT !.method = tasks[j].method] = tasks[j]) =>
             PathText(results[i].output) # PathText(results[j].output)

\* one task executed twice with success, and the same path and filter
\* executed under another method tag
C27_Witness ==
  /\ cpc = "naming"
  /\ Len(results) = MaxCalls
  /\ results[1].status = "OK"
  /\ results[MaxCalls].status = "OK"
  /\ tasks[1].image_path = tasks[MaxCalls].image_path
  /\ tasks[1].selected_filter = tasks[MaxCalls].selected_filter
  /\ tasks[1].output_folder = tasks[MaxCalls].output_folder
  /\ tasks[1].method = "actor"
  /\ tasks[MaxCalls].method = Lower(tasks[1].selected_filter)

\* a step that creates an actor, dispatches a task, completes an image
\* operation, collects a result or stops an actor
RunEvent ==
  \/ created' # created
  \/ Len(tasks') > Len(tasks) /\ strategy = "actor"
  \/ \E i \in DOMAIN tpc : tpc[i] = "unsubmitted" /\ tpc'[i] = "queued"
  \/ fate' # fate
  \/ Len(results') > Len(results)
  \/ running' # running

\* C28 as stated: every creation, dispatch, execution, collection and stop
\* event of a run happens after the start instant was taken and before the
\* end instant is.
C28_EventsInsideInterval ==
  [][(strategy \in Strategies /\ RunEvent) => (StartTaken /\ ~EndTaken)]_vars

\* C29: in a sequential, process-pool or actor-pool run the gate is never
\* acquired or released: its permits are all available, its active count is
\* 0 and no execution has an acquire or a release to its name.
C29_GateUntouched ==
  (strategy \in Strategies /\ strategy # "thread") =>
    /\ permits = max_concurrent
    /\ GetActive = 0
    /\ \A i \in DOMAIN tpc :
         /\ acquires[i] = 0
         /\ releases[i] = 0
         /\ tpc[i] \notin {"acquire", "inc", "dec", "sem_release"}

C29_Witness ==
  /\ strategy = "process"
  /\ Cardinality(Working) > 1
  /\ \E i \in DOMAIN tpc : tpc[i] = "collected"
  /\ permits = max_concurrent

\* C30: when the actor-pool run is at its stop loop, every result has been
\* collected, so every inbox is empty, no actor has a task or a result in
\* hand and the outbox is empty: stop() strands nothing.
C30_NothingLostAtStop ==
  (strategy = "actor" /\ cpc \in {"stop", "done"}) =>
    /\ Len(results) = Len(tasks)
    /\ \A a \in 1..num_actors :
         /\ inbox[a] = <<>>
         /\ acur[a] = NoTask
         /\ ares[a] = NoResult
         /\ apc[a] \in {"check", "poll", "exited"}
         /\ dequeued[a] = submitted[a]
         /\ pushed[a] = submitted[a]

\* the first stop() is about to be called on actors that have all worked
C30_Witness ==
  /\ strategy = "actor"
  /\ cpc = "stop"
  /\ ci = 0
  /\ num_actors > 1
  /\ \A a \in 1..num_actors : pushed[a] > 0 /\ running[a]

\* C21 as stated: no reporting place divides by zero when it computes the
\* speedup or the efficiency.
C21_NoZeroDivisor ==
  \A place \in DOMAIN shown :
    /\ shown[place].speedup # ZeroDivisionError
    /\ shown[place].efficiency # ZeroDivisionError

\* the mean of the sequential history over the mean of another history
HistorySpeedups(m, seqkey) ==
  {Div(Mean(m[seqkey]), Mean(m[k])) :
     k \in {c \in DOMAIN m \ {seqkey} :
              m[c] # <<>> /\ m[seqkey] # <<>> /\ SumOf(m[c]) > 0}}

\* C22 as stated: a speedup that a report displays is the mean of the
\* sequential history over the mean of a candidate's history, and the
\* efficiency next to it is that speedup over 4 workers, times 100.
C22_SpeedupOfMeans ==
  [][\A place \in DOMAIN shown' :
       (shown' # shown /\ IsNumber(shown'[place].speedup)) =>
         /\ \E x \in HistorySpeedups(metrics', MetricKey(program, "sequential")) :
              FracEq(shown'[place].speedup, x)
         /\ IsNumber(shown'[place].efficiency) =>
              FracEq(shown'[place].efficiency,
                     Percent(shown'[place].speedup, Workers))]_vars

\* C23: when update_comparison_chart has run, the average it shows for each
\* strategy is a number: 0 for an empty history, and otherwise the sum of
\* the history's samples over their count.
C23_AveragesTotal ==
  [][(program = "prueba" /\ shown' # shown) =>
       \A k \in DOMAIN metrics' :
         LET avg == shown'["chart"].avg[k]
             h == metrics'[k]
         IN /\ IsNumber(avg)
            /\ avg.den # 0
            /\ avg.num * Len(h) = SumOf(h) * avg.den
            /\ h = <<>> => avg.num = 0]_vars

\* the chart shows a mean that is not a whole number next to the 0 of a
\* strategy that has no sample
C23_Witness ==
  /\ program = "prueba"
  /\ "chart" \in DOMAIN shown
  /\ shown["chart"] = ChartReport(metrics, self_image_paths)
  /\ Len(metrics["sequential"]) = 2
  /\ SumOf(metrics["sequential"]) = 3
  /\ metrics["actor_model"] = <<>>
  /\ metrics["parallel_process"] # <<>>

IsPrefix(s, t) == Len(s) <= Len(t) /\ SubSeq(t, 1, Len(s)) = s

\* C24: no step of a session (starting a run, a result, update_ui, the end
\* of a run, clear_list, a new output folder or strategy) removes, rewrites
\* or reorders a sample of self.metrics: every history only grows at its end.
C24_MetricsAppendOnly ==
  [][/\ DOMAIN metrics' = DOMAIN metrics
     /\ \A k \in DOMAIN metrics : IsPrefix(metrics[k], metrics'[k])]_vars

\* a history of two samples, in a session whose list was cleared
C24_Witness ==
  /\ cpc = "session"
  /\ events > 0
  /\ self_image_paths = <<>>
  /\ \E k \in DOMAIN metrics : Len(metrics[k]) = MaxRuns

\* the step in which run r, started by apply_filter or start_processing,
\* completes
Completes(r) ==
  /\ r \in DOMAIN runs
  /\ runs[r].ui # "done"
  /\ runs'[r].ui = "done"

\* C25 as stated: when a run completes, processed_counter holds the number
\* of its OK results, error_counter the number of its ERROR results, and
\* the two add up to the number of its tasks.
C25_TalliesMatchResults ==
  [][\A r \in 1..MaxRuns :
       Completes(r) =>
         /\ processed_counter'.value = runs'[r].ok
         /\ error_counter'.value = runs'[r].err
         /\ processed_counter'.value + error_counter'.value = runs'[r].total]_vars

\* C26 as stated: every run has counters and a gate of its own: they read 0
\* when it starts, the counters the window holds were made for the latest
\* run and incremented for its results only, and no earlier run holds the
\* gate the latest run uses.
C26_FreshPerRun ==
  cpc = "session" =>
    /\ \A r \in DOMAIN runs :
         /\ runs[r].tally_at_start = 0
         /\ runs[r].active_at_start = 0
         /\ r < Len(runs) => Holding(runs[r]) = 0
    /\ processed_counter.by \subseteq {Len(runs)}
    /\ error_counter.by \subseteq {Len(runs)}

\* tasks an actor has taken from its inbox and not yet answered
Unanswered(a) == dequeued[a] - pushed[a]

\* C35: an actor takes its next task only after it has put the result of
\* the one before, so each actor has at most one task in flight, it is in
\* the image operation only with that task, and the tasks in flight in a
\* run never number more than its actors.
C35_OneInFlightPerActor ==
  strategy = "actor" =>
    /\ \A a \in 1..num_actors :
         /\ Unanswered(a) \in {0, 1}
         /\ Unanswered(a) = 1 <=> apc[a] \in {"process", "put"}
         /\ Unanswered(a) = 1 <=> acur[a] # NoTask
    /\ Cardinality({t \in DOMAIN tasks :
                      \E a \in 1..num_actors :
                        apc[a] = "process" /\ acur[a] = tasks[t]}) <= num_actors

\* every actor is inside the image operation at once, one of them with its
\* second task
C35_Witness ==
  /\ strategy = "actor"
  /\ num_actors > 1
  /\ \A a \in 1..num_actors : apc[a] = "process"
  /\ \E a \in 1..num_actors : pushed[a] > 0

\* C37 as stated: two tasks of a batch that are inside the image operation
\* at the same time (two pooled executions, or two actors) have different
\* source paths and write different output files.
C37_DistinctOutputs ==
  /\ \A i, j \in Working :
       i # j =>
         /\ tasks[i].image_path # tasks[j].image_path
         /\ PathText(OutputPath(tasks[i])) # PathText(OutputPath(tasks[j]))
  /\ strategy = "actor" =>
       \A a, b \in 1..num_actors :
         (a # b /\ apc[a] = "process" /\ apc[b] = "process") =>
           /\ acur[a].image_path # acur[b].image_path
           /\ PathText(OutputPath(acur[a])) # PathText(OutputPath(acur[b]))

RECURSIVE Total(_, _)
Total(f, n) == IF n = 0 THEN 0 ELSE f[n] + Total(f, n - 1)

\* acquire() calls that returned, less release() calls that returned
Outstanding == Total(acquires, MaxCallers) - Total(releases, MaxCallers)

\* C36: release() is never refused, whatever was acquired: each of its two
\* statements can always be executed, and when no call is in progress the
\* active count is the acquires less the releases, below 0 if need be, and
\* the permits are the capacity less that number, above the capacity if
\* need be; so after one release with nothing outstanding the count is -1
\* and capacity + 1 callers can be admitted.
C36_Balance ==
  (cpc = "gate" /\ \A i \in 1..MaxCallers : AtRest(i)) =>
    /\ active_processes = Outstanding
    /\ permits = max_concurrent - Outstanding

C36_ReleaseCallable ==
  cpc = "gate" =>
    \A i \in 1..MaxCallers :
      /\ (AtRest(i) /\ GateCalls(MaxCallers) < MaxGateCalls) => ENABLED CallRelease(i)
      /\ tpc[i] = "dec" => ENABLED GateDec(i)
      /\ tpc[i] = "sem_release" => ENABLED GateRelease(i)

C36_UnpairedRelease == [](C36_Balance) /\ [](C36_ReleaseCallable)

\* after a release with nothing outstanding, capacity + 1 threads have
\* returned from acquire() and none has released
C36_Witness ==
  /\ cpc = "gate"
  /\ Cardinality({i \in 1..MaxCallers : tpc[i] = "work"}) = max_concurrent + 1
  /\ Total(releases, MaxCallers) = 1
  /\ active_processes = max_concurrent
  /\ permits = 0

\* C34: in the shipped sizes -- the thread pool is the only caller of the
\* gate and has no more workers than the gate has permits (4 and 4) -- a
\* pooled thread that is about to call semaphore.acquire() always finds a
\* permit: no acquire waits.
C34_AcquireNeverWaits ==
  (strategy = "thread" /\ max_workers <= max_concurrent) =>
    \A i \in DOMAIN tpc : tpc[i] = "acquire" => SemAvailable

\* every worker is busy, the pool is as wide as the gate, one thread is at
\* acquire() while all the others are past it
C34_Witness ==
  /\ strategy = "thread"
  /\ max_workers = max_concurrent
  /\ max_workers > 1
  /\ Busy = max_workers
  /\ \E i \in DOMAIN tpc :
       /\ tpc[i] = "acquire"
       /\ \A j \in DOMAIN tpc \ {i} : tpc[j] = "work"

\* the comparison runs of the window that have not reached the end of
\* finish_processing
Unfinished == {r \in DOMAIN runs : runs[r].ui # "done"}

\* C31: the comparison window has at most one run in progress, and
\* currently_processing is true exactly while it has one; while the flag is
\* true no step (a call of start_processing among them) starts a run or
\* resets the times or the progress bar, the times changing only as the
\* run's own phases end; and the flag goes back to false only in
\* finish_processing, which follows the run's two phases.
C31_RunInProgress ==
  program = "prueba2" =>
    /\ Cardinality(Unfinished) <= 1
    /\ currently_processing <=> Unfinished # {}

C31_WhileProcessing ==
  (program = "prueba2" /\ currently_processing) =>
    /\ Len(runs') = Len(runs)
    /\ progress_bar'.maximum = progress_bar.maximum
    /\ progress_bar'.value >= progress_bar.value
    /\ execution_times' # execution_times =>
         \E r \in Unfinished :
           /\ runs[r].ui \in {"sequential", "parallel"}
           /\ runs'[r].ui # runs[r].ui
    /\ ~currently_processing' =>
         \E r \in Unfinished :
           /\ runs[r].ui = "finishing"
           /\ runs'[r].ui = "done"
           /\ execution_times' = execution_times

C31_SingleRun == [](C31_RunInProgress) /\ [][C31_WhileProcessing]_vars

\* a second run of the window is in progress after the first one ended
C31_Witness ==
  /\ program = "prueba2"
  /\ Len(runs) = 2
  /\ runs[1].ui = "done"
  /\ runs[2].ui = "parallel"
  /\ currently_processing
  /\ ENABLED StartProcessing

\* the runs of the filter window started by apply_filter whose update_ui
\* has stopped rescheduling itself
Stopped == {r \in DOMAIN runs : /\ runs[r].strategy \in SessionStrategies("prueba")
                                /\ runs[r].ui = "done"}

\* C33: when the update_ui of a run started by apply_filter stops, it has
\* consumed every result of the run, and the run's elapsed sample is in
\* self.metrics once -- also when apply_filter was invoked again before the
\* run had finished.
C33_UiConsumesRun ==
  program = "prueba" =>
    /\ \A r \in Stopped : /\ runs[r].processed = runs[r].total
                          /\ runs[r].pending = [ok |-> 0, err |-> 0]
    /\ \A s \in SessionStrategies("prueba") :
         Len(metrics[MetricKey("prueba", s)]) =
           Cardinality({r \in Stopped : runs[r].strategy = s})

\* the images of the results of one phase in self.all_results
PhaseOf(all, phase) == {i \in 1..Len(all) : all[i].phase = phase}

\* all_results is the sequential results followed by the parallel results,
\* one of each per image
SequentialThenParallel(all) ==
  \E n \in 0..Len(all) :
    /\ Len(all) = 2 * n
    /\ PhaseOf(all, "sequential") = 1..n
    /\ PhaseOf(all, "parallel") = (n + 1)..(2 * n)
    /\ Cardinality({all[i].original : i \in 1..n}) = n
    /\ {all[i].original : i \in 1..n} = {all[i].original : i \in (n + 1)..(2 * n)}

\* C38, the order of the phases: while a comparison run is in its
\* sequential phase no parallel result or parallel time exists, and the
\* sequential time is stored by the time the parallel phase starts.
C38_SequentialFirst ==
  program = "prueba2" =>
    \A r \in DOMAIN runs :
      /\ runs[r].ui = "sequential" =>
           /\ PhaseOf(results, "parallel") = {}
           /\ execution_times.Paralelo = 0
      /\ runs[r].ui \in {"parallel", "finishing"} =>
           execution_times.Secuencial = ElapsedOf(r)

\* C38, the result list: when the parallel phase of a comparison run ends,
\* all_results holds the run's sequential results followed by its parallel
\* results, one of each per image.
C38_ResultsAtCompletion ==
  \A r \in DOMAIN runs :
    (program = "prueba2" /\ runs[r].ui = "parallel" /\ runs'[r].ui = "finishing")
      => SequentialThenParallel(results')

\* C38: both parts
C38_PhasesInOrder == [](C38_SequentialFirst) /\ [][C38_ResultsAtCompletion]_vars

\* C32: under fair scheduling the parallel phase of a comparison run, which
\* is the last thing the run does before it schedules finish_processing,
\* comes to its end whatever load_images, drop_event and clear_list do to
\* the list meanwhile: the run reaches finish_processing.
C32_RunReachesFinish ==
  (program = "prueba2" /\ strategy \in {"thread", "actor"}) =>
    <>(cpc = "recorded")

====
